---- MODULE Spec2Model ----
(***************************************************************************)
(* Model of the Xiaohongshu publisher: the CLI entry (run_publish_cli.py), *)
(* the client pipeline (xiaohongshu/client.py) and the content filler      *)
(* (xiaohongshu/components/content_filler.py).                             *)
(*                                                                         *)
(* Text is a sequence of one-character strings.  The characters that the   *)
(* code treats specially have names: "NL" is a line feed, "BS" a           *)
(* backslash, "SP" a blank, "#" the tag marker.                            *)
(*                                                                         *)
(* A DOM operation that the code performs is recorded as a record          *)
(* [op |-> name, arg |-> sequence]; a handler of the content filler is an  *)
(* operator from its arguments and the page it meets (its environment) to  *)
(* [ops |-> operations performed, ret |-> returned value, exc |-> raised]. *)
(***************************************************************************)
EXTENDS Integers, Sequences, FiniteSets, TLC

VARIABLES
  pc,            \* where the run is
  entry,         \* "cli": publish_task, "api": publish_note called directly
  note,          \* the XHSNote being published
  log,           \* the browser operations and log lines so far, in order
  exc,           \* the exception being propagated, NoExc if none
  result,        \* what publish_note returned: "none" or "success"
  report,        \* what publish_task printed last
  driver,        \* "none", "open" or "closed"
  elapsed_time, success_found, checks,   \* locals of the video poll
  inp,           \* the arguments of the call under study
  out            \* what the call under study produced

vars == <<pc, entry, note, log, exc, result, report, driver,
          elapsed_time, success_found, checks, inp, out>>

(***************************************************************************)
(* Bounds of the model.                                                    *)
(***************************************************************************)
MaxBodyLen == 4
MaxFailAt == 8
MaxPaths == 3
MaxTopicLen == 2
MaxTopicCount == 2
MaxTitleLen == 3
MaxTabs == 2
MaxToolCalls == 3
MaxLimit == 3

(***************************************************************************)
(* Exceptions: the type, the publish_step of a PublishError, and for an     *)
(* error raised from another one (raise ... from e) what that one was: its *)
(* step if it was a PublishError, its type otherwise.                      *)
(***************************************************************************)
NoExc == [type |-> "none", step |-> "none", cause |-> "none"]
PublishError(step) == [type |-> "PublishError", step |-> step, cause |-> "none"]
OtherError == [type |-> "Exception", step |-> "none", cause |-> "none"]

\* raise PublishError(..., publish_step=step) from e
RaisedFrom(step, e) ==
  [type |-> "PublishError", step |-> step,
   cause |-> IF e.type = "PublishError" THEN e.step ELSE e.type]

Op(name, arg) == [op |-> name, arg |-> arg]

(***************************************************************************)
(* Text helpers.                                                           *)
(***************************************************************************)
RECURSIVE SeqsUpTo(_, _)
SeqsUpTo(S, n) ==
  IF n = 0 THEN {<<>>}
  ELSE LET shorter == SeqsUpTo(S, n - 1)
       IN shorter \cup {Append(s, c) : s \in shorter, c \in S}

IsSpace(c) == c \in {"SP", "NL"}

RECURSIVE LStrip(_)
LStrip(s) == IF s # <<>> /\ IsSpace(s[1]) THEN LStrip(Tail(s)) ELSE s

RECURSIVE RStrip(_)
RStrip(s) ==
  IF s # <<>> /\ IsSpace(s[Len(s)]) THEN RStrip(SubSeq(s, 1, Len(s) - 1)) ELSE s

Strip(s) == RStrip(LStrip(s))

\* str.replace("\\n", "\n"): each backslash followed by n becomes a line feed
RECURSIVE ReplaceEscapedNewline(_)
ReplaceEscapedNewline(s) ==
  IF s = <<>> THEN <<>>
  ELSE IF Len(s) >= 2 /\ s[1] = "BS" /\ s[2] = "n"
       THEN <<"NL">> \o ReplaceEscapedNewline(SubSeq(s, 3, Len(s)))
       ELSE <<s[1]>> \o ReplaceEscapedNewline(Tail(s))

\* str.split("\n"): the pieces between line feeds, empty pieces kept
RECURSIVE SplitNewline(_)
SplitNewline(s) ==
  IF \A i \in 1..Len(s) : s[i] # "NL" THEN <<s>>
  ELSE LET i == CHOOSE j \in 1..Len(s) :
                  s[j] = "NL" /\ \A k \in 1..(j - 1) : s[k] # "NL"
       IN <<SubSeq(s, 1, i - 1)>> \o SplitNewline(SubSeq(s, i + 1, Len(s)))

Paragraphs(content) == SplitNewline(ReplaceEscapedNewline(content))

(***************************************************************************)
(* Limits of XHSConfig (xiaohongshu/constants.py), scaled down: what the   *)
(* validators compare against, in characters and in topics.               *)
(***************************************************************************)
MAX_TITLE_LENGTH == 2
MAX_CONTENT_LENGTH == 4
MAX_TOPICS == 1
MAX_TOPIC_LENGTH == 1

\* get_title_input_selectors(): the ordered title queries
NumTitleSelectors == 3
\* publish_selectors of _submit_note, direct_selectors of _find_content_editor
NumSubmitSelectors == 5
NumEditorSelectors == 4

(***************************************************************************)
(* Elements.  What a query meets on the page: no element ("absent"), an    *)
(* element that is not displayed ("hidden"), displayed but not enabled     *)
(* ("disabled"), displayed and enabled ("ok"), or an element whose state   *)
(* cannot be read because it raises ("stale").                             *)
(***************************************************************************)
ElementStates == {"absent", "hidden", "disabled", "ok", "stale"}
CandName(i) == <<"c1", "c2", "c3", "c4", "c5", "c6", "c7", "c8">>[i]
Element(role, i, st) == [role |-> role, idx |-> i, state |-> st]
None == [role |-> "none", idx |-> 0, state |-> "absent"]
Displayed(st) == st \in {"disabled", "ok"}

\* clean_text_for_browser: drops the characters ChromeDriver cannot type
CleanTextForBrowser(s) == SelectSeq(s, LAMBDA c : c # "EMOJI")

(***************************************************************************)
(* _find_title_input: for each selector in order, wait until its element   *)
(* is clickable (displayed and enabled); a timeout goes on to the next.    *)
(***************************************************************************)
RECURSIVE FindTitleInputFrom(_, _)
FindTitleInputFrom(cands, i) ==
  IF i > Len(cands) THEN [el |-> None, ops |-> <<>>]
  ELSE IF cands[i] = "ok"
       THEN [el |-> Element("title", i, "ok"),
             ops |-> <<Op("find", <<"title", CandName(i)>>)>>]
       ELSE LET rest == FindTitleInputFrom(cands, i + 1)
            IN [el |-> rest.el,
                ops |-> <<Op("find", <<"title", CandName(i)>>)>> \o rest.ops]

FindTitleInput(cands) == FindTitleInputFrom(cands, 1)

(***************************************************************************)
(* _find_content_editor.  e.direct: what the four direct queries meet;     *)
(* e.title: what the title queries meet (the anchor of the TAB fallback);  *)
(* e.anchorTag: the tag of the anchor; e.focusOk: the focus script runs;   *)
(* e.tab1, e.tab2: where focus is after the first and the second TAB       *)
(* ("anchor": it did not move, "raise": the key press or the read of       *)
(* the active element raises).                                             *)
(***************************************************************************)
FocusTargets == {"anchor", "input", "div", "button", "raise"}

RECURSIVE DirectEditorFrom(_, _)
DirectEditorFrom(cands, i) ==
  IF i > Len(cands) THEN [el |-> None, ops |-> <<>>]
  ELSE IF Displayed(cands[i])
       THEN [el |-> Element("editor", i, cands[i]),
             ops |-> <<Op("find", <<"editor", CandName(i)>>)>>]
       ELSE LET rest == DirectEditorFrom(cands, i + 1)
            IN [el |-> rest.el,
                ops |-> <<Op("find", <<"editor", CandName(i)>>)>> \o rest.ops]

\* the anchor search tries every title selector until one has a displayed element
RECURSIVE AnchorFrom(_, _)
AnchorFrom(cands, i) ==
  IF i > Len(cands) THEN [found |-> FALSE, ops |-> <<>>]
  ELSE IF Displayed(cands[i])
       THEN [found |-> TRUE, ops |-> <<Op("find", <<"anchor", CandName(i)>>)>>]
       ELSE LET rest == AnchorFrom(cands, i + 1)
            IN [found |-> rest.found,
                ops |-> <<Op("find", <<"anchor", CandName(i)>>)>> \o rest.ops]

TagOf(target, anchorTag) == IF target = "anchor" THEN anchorTag ELSE target

\* the element in focus after the second TAB is taken as it is
TabFallbackAdoptSecond(e) ==
  LET anchor == AnchorFrom(e.title, 1)
      focus == <<Op("focus", <<"anchor">>)>>
      tab == <<Op("send_keys", <<"TAB">>)>>
  IN IF ~anchor.found THEN [el |-> None, ops |-> anchor.ops]
     ELSE IF ~e.focusOk THEN [el |-> None, ops |-> anchor.ops]
     ELSE IF e.tab1 = "raise" THEN [el |-> None, ops |-> anchor.ops \o focus]
     ELSE IF TagOf(e.tab1, e.anchorTag) # "input"
          THEN [el |-> Element("active", 1, e.tab1), ops |-> anchor.ops \o focus \o tab]
     ELSE IF e.tab2 = "raise" THEN [el |-> None, ops |-> anchor.ops \o focus \o tab]
     ELSE [el |-> Element("active", 2, e.tab2),
           ops |-> anchor.ops \o focus \o tab \o tab]

TabFallback(e) ==
  LET anchor == AnchorFrom(e.title, 1)
      focus == <<Op("focus", <<"anchor">>)>>
      tab == <<Op("send_keys", <<"TAB">>)>>
  IN IF ~anchor.found THEN [el |-> None, ops |-> anchor.ops]
     ELSE IF ~e.focusOk THEN [el |-> None, ops |-> anchor.ops]
     ELSE IF e.tab1 = "raise" THEN [el |-> None, ops |-> anchor.ops \o focus]
     ELSE IF TagOf(e.tab1, e.anchorTag) # "input"
          THEN [el |-> Element("active", 1, e.tab1), ops |-> anchor.ops \o focus \o tab]
     ELSE IF e.tab2 = "raise" THEN [el |-> None, ops |-> anchor.ops \o focus \o tab]
     ELSE IF TagOf(e.tab2, e.anchorTag) # "input"
          THEN [el |-> Element("active", 2, e.tab2),
                ops |-> anchor.ops \o focus \o tab \o tab]
     ELSE [el |-> None, ops |-> anchor.ops \o focus \o tab \o tab]

FindContentEditor(e) ==
  LET direct == DirectEditorFrom(e.direct, 1)
  IN IF direct.el # None THEN direct
     ELSE LET fb == TabFallback(e)
          IN [el |-> fb.el, ops |-> direct.ops \o fb.ops]

\* the first k-1 of the operations run, the k-th raises (k = 0: all run)
Failed(all, failAt) == failAt # 0 /\ failAt <= Len(all)
Performed(all, failAt) ==
  IF Failed(all, failAt) THEN SubSeq(all, 1, failAt - 1) ELSE all

(***************************************************************************)
(* Validators of the content filler: they raise PublishError or return.    *)
(***************************************************************************)
\* the length is not checked
ValidateTitleNoLength(title) ==
  IF title = <<>> \/ Strip(title) = <<>> THEN PublishError("title_validation")
  ELSE NoExc

ValidateTitle(title) ==
  IF title = <<>> \/ Strip(title) = <<>> THEN PublishError("title_validation")
  ELSE IF Len(Strip(title)) > MAX_TITLE_LENGTH THEN PublishError("title_validation")
  ELSE NoExc

ValidateContent(content) ==
  IF content = <<>> \/ Strip(content) = <<>> THEN PublishError("content_validation")
  ELSE IF Len(Strip(content)) > MAX_CONTENT_LENGTH THEN PublishError("content_validation")
  ELSE NoExc

ValidateTopics(topics) ==
  IF Len(topics) > MAX_TOPICS THEN PublishError("topic_validation")
  ELSE IF \E i \in 1..Len(topics) : Len(topics[i]) > MAX_TOPIC_LENGTH
       THEN PublishError("topic_validation")
  ELSE NoExc

\* Python's  a in b  on strings
IsSubstring(a, b) ==
  \E i \in 0..Len(b) : i + Len(a) <= Len(b) /\ SubSeq(b, i + 1, i + Len(a)) = a

(***************************************************************************)
(* _perform_title_fill: clear, type the cleaned title, read the value      *)
(* back.  value is what the field holds when it is read; the read is       *)
(* recorded with the value it gave.                                        *)
(***************************************************************************)
PerformTitleFill(title, value, failAt) ==
  LET cleaned == CleanTextForBrowser(title)
      all == <<Op("clear", <<>>), Op("send_keys", cleaned), Op("get_value", value)>>
  IN IF Failed(all, failAt)
     THEN [ops |-> Performed(all, failAt), ret |-> FALSE, exc |-> NoExc]
     ELSE [ops |-> all, ret |-> (IsSubstring(cleaned, value) \/ Len(value) > 0),
           exc |-> NoExc]

(***************************************************************************)
(* fill_title(title): validate, find the title input, fill.                *)
(* e.title: what the title queries meet; e.value: the value read back      *)
(* ("typed": the cleaned title, "empty": nothing, "other": another text).  *)
(***************************************************************************)
ReadBack(title, v) ==
  IF v = "typed" THEN CleanTextForBrowser(title)
  ELSE IF v = "empty" THEN <<>> ELSE <<"x">>

FillTitle(title, e, failAt) ==
  IF ValidateTitle(title) # NoExc
  THEN [ops |-> <<>>, ret |-> FALSE, exc |-> ValidateTitle(title)]
  ELSE LET found == FindTitleInput(e.title)
       IN IF found.el = None
          THEN [ops |-> found.ops, ret |-> FALSE, exc |-> PublishError("title_fill")]
          ELSE LET fill == PerformTitleFill(title, ReadBack(title, e.value), failAt)
               IN [ops |-> found.ops \o fill.ops, ret |-> fill.ret, exc |-> NoExc]

(***************************************************************************)
(* _perform_content_fill: the DOM operations of a body fill.  failAt = k   *)
(* makes the k-th DOM operation raise (0: none does); the handler catches  *)
(* the exception and returns False.                                        *)
(***************************************************************************)
ClearEditorOps ==
  <<Op("click", <<>>), Op("send_keys", <<"CTRL", "a">>), Op("send_keys", <<"DELETE">>)>>

RECURSIVE InjectOpsBug(_, _)
InjectOpsBug(paragraphs, i) ==
  IF i > Len(paragraphs) THEN <<>>
  ELSE (IF paragraphs[i] # <<>> THEN <<Op("insertText", paragraphs[i])>> ELSE <<>>)
       \o (IF i < Len(paragraphs) /\ paragraphs[i] # <<>>
           THEN <<Op("send_keys", <<"ENTER">>)>> ELSE <<>>)
       \o InjectOpsBug(paragraphs, i + 1)

RECURSIVE InjectOps(_, _)
InjectOps(paragraphs, i) ==
  IF i > Len(paragraphs) THEN <<>>
  ELSE (IF paragraphs[i] # <<>> THEN <<Op("insertText", paragraphs[i])>> ELSE <<>>)
       \o (IF i < Len(paragraphs) THEN <<Op("send_keys", <<"ENTER">>)>> ELSE <<>>)
       \o InjectOps(paragraphs, i + 1)

\* the editor is cleared once more after the first paragraph has gone in
PerformContentFillClearAgain(content, failAt) ==
  LET inject == InjectOps(Paragraphs(content), 1)
      all == IF inject = <<>> THEN ClearEditorOps
             ELSE ClearEditorOps \o <<Head(inject)>> \o Tail(ClearEditorOps)
                    \o Tail(inject)
  IN [ops |-> Performed(all, failAt), ret |-> ~Failed(all, failAt), exc |-> NoExc]

PerformContentFill(content, failAt) ==
  LET all == ClearEditorOps \o InjectOps(Paragraphs(content), 1)
  IN [ops |-> Performed(all, failAt), ret |-> ~Failed(all, failAt), exc |-> NoExc]

(***************************************************************************)
(* fill_content(content): validate, find the editor, fill.                 *)
(***************************************************************************)
FillContent(content, e, failAt) ==
  IF ValidateContent(content) # NoExc
  THEN [ops |-> <<>>, ret |-> FALSE, exc |-> ValidateContent(content)]
  ELSE LET found == FindContentEditor(e)
       IN IF found.el = None
          THEN [ops |-> found.ops, ret |-> FALSE, exc |-> PublishError("content_fill")]
          ELSE LET fill == PerformContentFill(content, failAt)
               IN [ops |-> found.ops \o fill.ops, ret |-> fill.ret, exc |-> NoExc]

(***************************************************************************)
(* fill_topics(topics): the definition in force is the second one of the   *)
(* class (it replaces the first, which validated): find the editor, click, *)
(* move the cursor to the end, two ENTER, then "#", topic, ENTER for each  *)
(* topic that is not empty once cleaned.  Any exception after the lookup   *)
(* is caught and True is returned.                                         *)
(***************************************************************************)
\* only one marker in front of the topic is removed
CleanTopicLeadingOnly(topic) ==
  IF Strip(topic) # <<>> /\ Strip(topic)[1] = "#" THEN Strip(Tail(Strip(topic)))
  ELSE Strip(topic)

\* topic.replace("#", "").strip()
CleanTopic(topic) == Strip(SelectSeq(topic, LAMBDA c : c # "#"))

RECURSIVE TopicOps(_, _)
TopicOps(topics, i) ==
  IF i > Len(topics) THEN <<>>
  ELSE (IF CleanTopic(topics[i]) = <<>> THEN <<>>
        ELSE <<Op("send_keys", <<"#">>), Op("send_keys", CleanTopic(topics[i])),
               Op("send_keys", <<"ENTER">>)>>)
       \o TopicOps(topics, i + 1)

\* one line break only before the topics
CursorOpsOneBreak ==
  <<Op("click", <<>>), Op("move_cursor_to_end", <<>>), Op("send_keys", <<"ENTER">>)>>

CursorOps ==
  <<Op("click", <<>>), Op("move_cursor_to_end", <<>>),
    Op("send_keys", <<"ENTER">>), Op("send_keys", <<"ENTER">>)>>

FillTopicsUncaught(topics, e, failAt) ==
  IF topics = <<>> THEN [ops |-> <<>>, ret |-> TRUE, failed |-> FALSE, exc |-> NoExc]
  ELSE LET found == FindContentEditor(e)
           all == CursorOps \o TopicOps(topics, 1)
       IN IF found.el = None
          THEN [ops |-> found.ops, ret |-> FALSE, failed |-> TRUE, exc |-> NoExc]
          ELSE [ops |-> found.ops \o Performed(all, failAt), ret |-> TRUE,
                failed |-> Failed(all, failAt),
                exc |-> IF Failed(all, failAt) THEN OtherError ELSE NoExc]

FillTopics(topics, e, failAt) ==
  IF topics = <<>> THEN [ops |-> <<>>, ret |-> TRUE, failed |-> FALSE, exc |-> NoExc]
  ELSE LET found == FindContentEditor(e)
           all == CursorOps \o TopicOps(topics, 1)
       IN IF found.el = None
          THEN [ops |-> found.ops, ret |-> FALSE, failed |-> TRUE, exc |-> NoExc]
          ELSE [ops |-> found.ops \o Performed(all, failAt), ret |-> TRUE,
                failed |-> Failed(all, failAt), exc |-> NoExc]

(***************************************************************************)
(* The submit button of _submit_note: each selector in order; a query that *)
(* finds nothing leaves submit_btn as it was, one that finds an element    *)
(* assigns it and stops only if the element is displayed and enabled.      *)
(***************************************************************************)
RECURSIVE SubmitBtnNoBreak(_, _, _)
SubmitBtnNoBreak(cands, i, cur) ==
  IF i > Len(cands) THEN [el |-> cur, ops |-> <<>>]
  ELSE LET q == <<Op("find", <<"submit", CandName(i)>>)>>
           rest == SubmitBtnNoBreak(cands, i + 1,
                     IF cands[i] = "absent" THEN cur
                     ELSE Element("submit", i, cands[i]))
       IN [el |-> rest.el, ops |-> q \o rest.ops]

RECURSIVE SubmitBtnFrom(_, _, _)
SubmitBtnFrom(cands, i, cur) ==
  IF i > Len(cands) THEN [el |-> cur, ops |-> <<>>]
  ELSE LET q == <<Op("find", <<"submit", CandName(i)>>)>>
       IN IF cands[i] = "ok" THEN [el |-> Element("submit", i, "ok"), ops |-> q]
          ELSE LET rest == SubmitBtnFrom(cands, i + 1,
                             IF cands[i] = "absent" THEN cur
                             ELSE Element("submit", i, cands[i]))
               IN [el |-> rest.el, ops |-> q \o rest.ops]

FindSubmitBtn(cands) == SubmitBtnFrom(cands, 1, None)

(***************************************************************************)
(* _submit_note: find the button, click it, read the URL, return a         *)
(* successful result; whatever is raised inside, the not-found error       *)
(* (step "find_submit_button") included, is caught by the handler's own    *)
(* except clause and raised again as PublishError with the step "submit".  *)
(* e.submit: what the queries meet; e.clickOk: the click of an element     *)
(* that can take one goes through; e.urlOk: the URL can be read.           *)
(***************************************************************************)
Clickable(st) == st \in {"disabled", "ok"}

\* a click that fails is passed over
SubmitNoteSwallow(e) ==
  LET found == FindSubmitBtn(e.submit)
      click == <<Op("click", <<"submit", CandName(found.el.idx)>>)>>
  IN IF found.el = None
     THEN [ops |-> found.ops, ret |-> FALSE,
           exc |-> RaisedFrom("submit", PublishError("find_submit_button"))]
     ELSE IF ~Clickable(found.el.state) \/ ~e.clickOk
          THEN [ops |-> found.ops \o <<Op("current_url", <<>>)>>, ret |-> TRUE,
                exc |-> NoExc]
     ELSE [ops |-> found.ops \o click \o <<Op("current_url", <<>>)>>, ret |-> TRUE,
           exc |-> NoExc]

SubmitNote(e) ==
  LET found == FindSubmitBtn(e.submit)
      click == <<Op("click", <<"submit", CandName(found.el.idx)>>)>>
  IN IF found.el = None
     THEN [ops |-> found.ops, ret |-> FALSE,
           exc |-> RaisedFrom("submit", PublishError("find_submit_button"))]
     ELSE IF ~Clickable(found.el.state) \/ ~e.clickOk
          THEN [ops |-> found.ops, ret |-> FALSE, exc |-> RaisedFrom("submit", OtherError)]
     ELSE IF ~e.urlOk
          THEN [ops |-> found.ops \o click, ret |-> FALSE,
                exc |-> RaisedFrom("submit", OtherError)]
     ELSE [ops |-> found.ops \o click \o <<Op("current_url", <<>>)>>, ret |-> TRUE,
           exc |-> NoExc]

(***************************************************************************)
(* _switch_publish_mode.  A tab of the page: its label ("image" for the    *)
(* image-mode tab, "video" for the video-mode tab, "other"), whether it is *)
(* displayed, its coordinates, whether it is the active tab, and whether   *)
(* reading it raises.  e.tabs: the tabs found (in page order);             *)
(* e.findOk: the tab query runs; e.clickOk: the click goes through.        *)
(* Every exception is caught inside the handler.                           *)
(***************************************************************************)
Tab(label, displayed, x, y, active, stale) ==
  [label |-> label, displayed |-> displayed, x |-> x, y |-> y,
   active |-> active, stale |-> stale]

\* the coordinates are not looked at
RECURSIVE SelectTabNoRect(_, _, _)
SelectTabNoRect(tabs, label, i) ==
  IF i > Len(tabs) THEN 0
  ELSE IF tabs[i].stale THEN -1
  ELSE IF tabs[i].displayed /\ tabs[i].label = label THEN i
  ELSE SelectTabNoRect(tabs, label, i + 1)

\* index of the tab the loop selects; 0: none; -1: reading a tab raised
RECURSIVE SelectTab(_, _, _)
SelectTab(tabs, label, i) ==
  IF i > Len(tabs) THEN 0
  ELSE IF tabs[i].stale THEN -1
  ELSE IF tabs[i].displayed /\ tabs[i].label = label /\ tabs[i].x > 0 /\ tabs[i].y > 0
       THEN i
  ELSE SelectTab(tabs, label, i + 1)

\* the video tab is clicked whether it is the active one or not
SwitchPublishModeNoActiveTest(n, e) ==
  LET has_images == n.images # <<>>
      has_videos == n.videos # <<>>
      label == IF has_images THEN "image" ELSE "video"
      find == <<Op("find", <<"tabs">>)>>
      t == SelectTab(e.tabs, label, 1)
  IN IF ~has_images /\ ~has_videos THEN <<>>
     ELSE IF ~e.findOk THEN <<>>
     ELSE IF t <= 0 THEN find
     ELSE IF ~e.clickOk THEN find
     ELSE find \o <<Op("click", <<"tab", label, CandName(t)>>)>>

SwitchPublishMode(n, e) ==
  LET has_images == n.images # <<>>
      has_videos == n.videos # <<>>
      label == IF has_images THEN "image" ELSE "video"
      find == <<Op("find", <<"tabs">>)>>
      t == SelectTab(e.tabs, label, 1)
  IN IF ~has_images /\ ~has_videos THEN <<>>
     ELSE IF ~e.findOk THEN <<>>
     ELSE IF t <= 0 THEN find
     ELSE IF ~has_images /\ e.tabs[t].active THEN find
     ELSE IF ~e.clickOk THEN find
     ELSE find \o <<Op("click", <<"tab", label, CandName(t)>>)>>

(***************************************************************************)
(* _handle_file_upload up to the point where the files have been sent.     *)
(* e.upload: what the seven upload queries meet; e.xpathFound: the final   *)
(* XPath query finds an input; e.sendOk: send_keys goes through.  When no   *)
(* query finds a control the handler logs an error line and returns.       *)
(* sent: the paths were sent; poll: the video poll is entered.             *)
(***************************************************************************)
NumUploadSelectors == 7

RECURSIVE UploadInputFrom(_, _)
UploadInputFrom(cands, i) ==
  IF i > Len(cands) THEN [el |-> None, ops |-> <<>>]
  ELSE LET q == <<Op("find", <<"upload", CandName(i)>>)>>
       IN IF Displayed(cands[i]) THEN [el |-> Element("upload", i, cands[i]), ops |-> q]
          ELSE LET rest == UploadInputFrom(cands, i + 1)
               IN [el |-> rest.el, ops |-> q \o rest.ops]

FilesToUpload(n) == n.images \o n.videos

\* the error line logged when the XPath query finds nothing either
NoUploadElement == Op("error", <<"no_upload_element">>)

HandleFileUploadUncaught(n, e) ==
  LET files == FilesToUpload(n)
      has_video == n.videos # <<>>
      found == UploadInputFrom(e.upload, 1)
      xpath == <<Op("find", <<"upload", "xpath">>)>>
      lookup == IF found.el # None THEN found.ops ELSE found.ops \o xpath
  IN IF files = <<>>
     THEN [ops |-> <<>>, sent |-> FALSE, poll |-> FALSE, exc |-> NoExc]
     ELSE IF found.el = None /\ ~e.xpathFound
          THEN [ops |-> lookup \o <<NoUploadElement>>, sent |-> FALSE, poll |-> FALSE,
                exc |-> NoExc]
     ELSE IF ~e.sendOk
          THEN [ops |-> lookup, sent |-> FALSE, poll |-> FALSE, exc |-> OtherError]
     ELSE [ops |-> lookup \o <<Op("send_files", files)>>, sent |-> TRUE,
           poll |-> has_video, exc |-> NoExc]

\* the images are sent, then the videos, in two operations
HandleFileUploadTwoSends(n, e) ==
  LET files == FilesToUpload(n)
      has_video == n.videos # <<>>
      found == UploadInputFrom(e.upload, 1)
      xpath == <<Op("find", <<"upload", "xpath">>)>>
      lookup == IF found.el # None THEN found.ops ELSE found.ops \o xpath
  IN IF files = <<>>
     THEN [ops |-> <<>>, sent |-> FALSE, poll |-> FALSE, exc |-> NoExc]
     ELSE IF found.el = None /\ ~e.xpathFound
          THEN [ops |-> lookup \o <<NoUploadElement>>, sent |-> FALSE, poll |-> FALSE,
                exc |-> NoExc]
     ELSE IF ~e.sendOk
          THEN [ops |-> lookup, sent |-> FALSE, poll |-> FALSE, exc |-> NoExc]
     ELSE [ops |-> lookup \o (IF n.images # <<>> THEN <<Op("send_files", n.images)>>
                              ELSE <<>>)
                        \o (IF n.videos # <<>> THEN <<Op("send_files", n.videos)>>
                            ELSE <<>>),
           sent |-> TRUE, poll |-> has_video, exc |-> NoExc]

\* the poll is entered whenever files were sent
HandleFileUploadPollAlways(n, e) ==
  LET files == FilesToUpload(n)
      found == UploadInputFrom(e.upload, 1)
      xpath == <<Op("find", <<"upload", "xpath">>)>>
      lookup == IF found.el # None THEN found.ops ELSE found.ops \o xpath
  IN IF files = <<>>
     THEN [ops |-> <<>>, sent |-> FALSE, poll |-> FALSE, exc |-> NoExc]
     ELSE IF found.el = None /\ ~e.xpathFound
          THEN [ops |-> lookup \o <<NoUploadElement>>, sent |-> FALSE, poll |-> FALSE,
                exc |-> NoExc]
     ELSE IF ~e.sendOk
          THEN [ops |-> lookup, sent |-> FALSE, poll |-> FALSE, exc |-> NoExc]
     ELSE [ops |-> lookup \o <<Op("send_files", files)>>, sent |-> TRUE,
           poll |-> TRUE, exc |-> NoExc]

\* a missing upload control fails the step
HandleFileUploadNotFoundFatal(n, e) ==
  LET files == FilesToUpload(n)
      has_video == n.videos # <<>>
      found == UploadInputFrom(e.upload, 1)
      xpath == <<Op("find", <<"upload", "xpath">>)>>
      lookup == IF found.el # None THEN found.ops ELSE found.ops \o xpath
  IN IF files = <<>>
     THEN [ops |-> <<>>, sent |-> FALSE, poll |-> FALSE, exc |-> NoExc]
     ELSE IF found.el = None /\ ~e.xpathFound
          THEN [ops |-> lookup \o <<NoUploadElement>>, sent |-> FALSE, poll |-> FALSE,
                exc |-> PublishError("upload")]
     ELSE IF ~e.sendOk
          THEN [ops |-> lookup, sent |-> FALSE, poll |-> FALSE, exc |-> NoExc]
     ELSE [ops |-> lookup \o <<Op("send_files", files)>>, sent |-> TRUE,
           poll |-> has_video, exc |-> NoExc]

\* a send_keys that raises is caught by the handler's own except clause
HandleFileUpload(n, e) ==
  LET files == FilesToUpload(n)
      has_video == n.videos # <<>>
      found == UploadInputFrom(e.upload, 1)
      xpath == <<Op("find", <<"upload", "xpath">>)>>
      lookup == IF found.el # None THEN found.ops ELSE found.ops \o xpath
  IN IF files = <<>>
     THEN [ops |-> <<>>, sent |-> FALSE, poll |-> FALSE, exc |-> NoExc]
     ELSE IF found.el = None /\ ~e.xpathFound
          THEN [ops |-> lookup \o <<NoUploadElement>>, sent |-> FALSE, poll |-> FALSE,
                exc |-> NoExc]
     ELSE IF ~e.sendOk
          THEN [ops |-> lookup, sent |-> FALSE, poll |-> FALSE, exc |-> NoExc]
     ELSE [ops |-> lookup \o <<Op("send_files", files)>>, sent |-> TRUE,
           poll |-> has_video, exc |-> NoExc]

(***************************************************************************)
(* _wait_for_video_upload_complete: the polling loop.                      *)
(***************************************************************************)
max_wait_time == 120
check_interval == 2

AfterSleepStuck(elapsed) == elapsed

\* elapsed_time += check_interval
AfterSleep(elapsed) == elapsed + check_interval

(***************************************************************************)
(* The pages and inputs the pipeline is run against.                       *)
(***************************************************************************)
Paths == {"p1", "p2", "p3"}
TitleChars == {"a", "SP", "EMOJI"}
TopicChars == {"a", "#", "SP"}
BodyChars == {"a", "SP", "NL", "BS", "n"}

NoNote == [title |-> <<>>, content |-> <<>>, images |-> <<>>, videos |-> <<>>,
           topics |-> <<>>]
NoOut == [ops |-> <<>>, ret |-> FALSE, exc |-> NoExc]
NoInp == [text |-> <<>>, failAt |-> 0]

AllAbsent(n) == [i \in 1..n |-> "absent"]

EditorEnv(direct, title, tag, focusOk, t1, t2) ==
  [direct |-> direct, title |-> title, anchorTag |-> tag, focusOk |-> focusOk,
   tab1 |-> t1, tab2 |-> t2]

\* an editor found directly, one found by TAB, and none found
EditorEnvsSmall ==
  { EditorEnv(<<"absent", "ok", "absent", "absent">>, <<"ok", "absent", "absent">>,
              "input", TRUE, "div", "div"),
    EditorEnv(<<"hidden", "absent", "absent", "absent">>, <<"ok", "absent", "absent">>,
              "input", TRUE, "input", "div"),
    EditorEnv(<<"absent", "absent", "absent", "absent">>, <<"absent", "hidden", "absent">>,
              "input", TRUE, "div", "div") }

TitleEnvsSmall ==
  [title : { <<"hidden", "ok", "absent">>, <<"disabled", "absent", "stale">> },
   value : {"typed", "empty"}]

ModeEnvsSmall ==
  [tabs : { <<>>,
            <<Tab("image", TRUE, 1, 1, FALSE, FALSE), Tab("video", TRUE, 1, 1, TRUE, FALSE)>>,
            <<Tab("video", TRUE, 0, 1, FALSE, FALSE), Tab("video", TRUE, 1, 1, FALSE, FALSE)>>,
            <<Tab("image", TRUE, 1, 1, FALSE, TRUE)>> },
   findOk : BOOLEAN, clickOk : BOOLEAN]

UploadEnvsSmall ==
  [upload : { AllAbsent(NumUploadSelectors),
              <<"hidden", "ok", "absent", "absent", "absent", "absent", "absent">> },
   xpathFound : BOOLEAN, sendOk : BOOLEAN]

SubmitEnvsSmall ==
  [submit : { AllAbsent(NumSubmitSelectors),
              <<"hidden", "ok", "absent", "absent", "absent">>,
              <<"disabled", "absent", "hidden", "absent", "absent">>,
              <<"absent", "disabled", "absent", "absent", "absent">>,
              <<"absent", "absent", "absent", "stale", "absent">> },
   clickOk : BOOLEAN, urlOk : {TRUE}]

ApiNotes ==
  [title : {<<>>, <<"a">>}, content : {<<>>, <<"a", "NL", "a">>},
   images : {<<>>, <<"p1">>}, videos : {<<>>, <<"v1">>},
   topics : {<<>>, <<<<"a">>, <<"#">>>>}]

\* the lists of up to MaxPaths different paths
PathLists ==
  {l \in SeqsUpTo(Paths, MaxPaths) : \A i, j \in 1..Len(l) : l[i] = l[j] => i = j}

TaskInputs ==
  [jsonExists : BOOLEAN, parseOk : BOOLEAN, title : {<<>>, <<"a">>},
   content : {<<>>, <<"a">>}, topics : {<<>>, <<<<"a">>>>},
   image_paths : PathLists,
   exists : SUBSET Paths, clientOk : BOOLEAN]

(***************************************************************************)
(* publish_task (run_publish_cli.py): read the JSON, check the fields,     *)
(* keep the image paths that exist, create the client, build the note.     *)
(***************************************************************************)
ValidImagesAllOrNone(image_paths, exists) ==
  IF \E i \in 1..Len(image_paths) : image_paths[i] \in exists THEN image_paths ELSE <<>>

ValidImages(image_paths, exists) == SelectSeq(image_paths, LAMBDA p : p \in exists)

FieldsMissingTitleOnly(title, content) == title = <<>>

\* not title or not content
FieldsMissing(title, content) == title = <<>> \/ content = <<>>

PublishTask ==
  /\ pc = "task"
  /\ LET valid_images == ValidImages(inp.image_paths, inp.exists)
         abort == IF ~inp.jsonExists THEN "no_json"
                  ELSE IF ~inp.parseOk THEN "bad_json"
                  ELSE IF FieldsMissing(inp.title, inp.content) THEN "missing_fields"
                  ELSE IF valid_images = <<>> THEN "no_images"
                  ELSE IF ~inp.clientOk THEN "client_init_failed"
                  ELSE "none"
     IN IF abort # "none"
        THEN /\ pc' = "task_done"
             /\ report' = abort
             /\ UNCHANGED note
        ELSE /\ pc' = "publish_note"
             /\ note' = [title |-> inp.title, content |-> inp.content,
                         images |-> valid_images, videos |-> <<>>,
                         topics |-> inp.topics]
             /\ UNCHANGED report
  /\ UNCHANGED <<entry, log, exc, result, driver, elapsed_time, success_found,
                 checks, inp, out>>

(***************************************************************************)
(* publish_note: the try block up to the call of _publish_note_process.    *)
(***************************************************************************)
pollVars == <<elapsed_time, success_found, checks>>

CreateDriver ==
  /\ pc = "publish_note"
  /\ \E ok \in BOOLEAN :
       /\ log' = Append(log, Op("create_driver", <<>>))
       /\ IF ok THEN /\ driver' = "open" /\ pc' = "navigate" /\ UNCHANGED exc
                ELSE /\ exc' = OtherError /\ pc' = "pn_except" /\ UNCHANGED driver
  /\ UNCHANGED <<entry, note, result, report, pollVars, inp, out>>

NavigateToCreatorCenter ==
  /\ pc = "navigate"
  /\ \E ok \in BOOLEAN :
       /\ log' = Append(log, Op("navigate_to_creator_center", <<>>))
       /\ IF ok THEN pc' = "load_cookies" /\ UNCHANGED exc
                ELSE exc' = OtherError /\ pc' = "pn_except"
  /\ UNCHANGED <<entry, note, result, report, driver, pollVars, inp, out>>

LoadCookies ==
  /\ pc = "load_cookies"
  /\ \E ok \in BOOLEAN :
       /\ log' = Append(log, Op("load_cookies", <<>>))
       /\ IF ok THEN pc' = "open_page" /\ UNCHANGED exc
                ELSE exc' = OtherError /\ pc' = "pn_except"
  /\ UNCHANGED <<entry, note, result, report, driver, pollVars, inp, out>>

(***************************************************************************)
(* _publish_note_process, step by step.                                    *)
(***************************************************************************)
\* the page reached is not looked at: the process goes on whatever its URL
OpenPublishPageNoUrlTest ==
  /\ pc = "open_page"
  /\ \E page \in {"publish", "login", "raise"} :
       /\ log' = log \o <<Op("get", <<"publish_page">>)>>
                    \o (IF page = "raise" THEN <<>> ELSE <<Op("current_url", <<page>>)>>)
       /\ IF page # "raise" THEN pc' = "switch_mode" /\ UNCHANGED exc
          ELSE pc' = "proc_except" /\ exc' = OtherError
  /\ UNCHANGED <<entry, note, result, report, driver, pollVars, inp, out>>

OpenPublishPage ==
  /\ pc = "open_page"
  /\ \E page \in {"publish", "login", "raise"} :
       /\ log' = log \o <<Op("get", <<"publish_page">>)>>
                    \o (IF page = "raise" THEN <<>> ELSE <<Op("current_url", <<page>>)>>)
       /\ IF page = "publish" THEN pc' = "switch_mode" /\ UNCHANGED exc
          ELSE /\ pc' = "proc_except"
               /\ exc' = IF page = "login" THEN PublishError("page_access")
                         ELSE OtherError
  /\ UNCHANGED <<entry, note, result, report, driver, pollVars, inp, out>>

\* an exception of the tab lookup leaves _switch_publish_mode
SwitchModeFatal ==
  /\ pc = "switch_mode"
  /\ \E e \in ModeEnvsSmall :
       /\ log' = log \o <<Op("log", <<"switch_mode">>)>> \o SwitchPublishMode(note, e)
       /\ IF e.findOk THEN pc' = "upload" /\ UNCHANGED exc
          ELSE pc' = "proc_except" /\ exc' = OtherError
  /\ UNCHANGED <<entry, note, result, report, driver, pollVars, inp, out>>

SwitchMode ==
  /\ pc = "switch_mode"
  /\ \E e \in ModeEnvsSmall :
       log' = log \o <<Op("log", <<"switch_mode">>)>> \o SwitchPublishMode(note, e)
  /\ pc' = "upload"
  /\ UNCHANGED <<entry, note, exc, result, report, driver, pollVars, inp, out>>

Upload ==
  /\ pc = "upload"
  /\ \E e \in UploadEnvsSmall :
       LET r == HandleFileUpload(note, e)
       IN /\ log' = log \o <<Op("log", <<"upload">>)>> \o r.ops
                    \o (IF FilesToUpload(note) # <<>> /\ ~r.sent
                        THEN <<Op("warn", <<"upload">>)>> ELSE <<>>)
          /\ IF r.exc # NoExc THEN pc' = "proc_except" /\ exc' = r.exc
             ELSE /\ pc' = IF r.poll THEN "poll" ELSE "fill_title"
                  /\ UNCHANGED exc
  /\ UNCHANGED <<entry, note, result, report, driver, pollVars, inp, out>>

\* the sleep follows every check, the one that saw the indicator included
PollCheckSleepAlways ==
  /\ pc = "poll"
  /\ elapsed_time < max_wait_time /\ ~success_found
  /\ \E seen \in {"indicator", "nothing", "raise"} :
       /\ checks' = checks + 1
       /\ elapsed_time' = AfterSleep(elapsed_time)
       /\ success_found' = (seen = "indicator")
  /\ UNCHANGED <<pc, entry, note, log, exc, result, report, driver, inp, out>>

\* one round of the while loop: look for the indicator, sleep if it is not there
PollCheck ==
  /\ pc = "poll"
  /\ elapsed_time < max_wait_time /\ ~success_found
  /\ \E seen \in {"indicator", "nothing", "raise"} :
       /\ checks' = checks + 1
       /\ IF seen = "indicator"
          THEN success_found' = TRUE /\ UNCHANGED elapsed_time
          ELSE elapsed_time' = AfterSleep(elapsed_time) /\ UNCHANGED success_found
  /\ UNCHANGED <<pc, entry, note, log, exc, result, report, driver, inp, out>>

\* the loop is left; the video information is read (a failure is ignored)
PollExit ==
  /\ pc = "poll"
  /\ ~(elapsed_time < max_wait_time /\ ~success_found)
  /\ \E infoOk \in BOOLEAN :
       log' = log \o (IF success_found THEN <<>> ELSE <<Op("warn", <<"poll_timeout">>)>>)
                  \o (IF infoOk THEN <<Op("find", <<"video_info">>)>> ELSE <<>>)
  /\ pc' = "poll_done"
  /\ UNCHANGED <<entry, note, exc, result, report, driver, pollVars, inp, out>>

\* _handle_file_upload returns after the poll
UploadReturn ==
  /\ pc = "poll_done"
  /\ entry # "none"
  /\ pc' = "fill_title"
  /\ elapsed_time' = 0 /\ success_found' = FALSE /\ checks' = 0
  /\ UNCHANGED <<entry, note, log, exc, result, report, driver, inp, out>>

\* _fill_note_content: the title
FillTitleStep ==
  /\ pc = "fill_title"
  /\ \E e \in TitleEnvsSmall, failAt \in {0, 2} :
       LET r == FillTitle(note.title, e, failAt)
       IN /\ log' = log \o <<Op("log", <<"fill_title">>)>> \o r.ops
          /\ IF r.exc # NoExc THEN pc' = "proc_except" /\ exc' = r.exc
             ELSE IF ~r.ret
                  THEN pc' = "proc_except" /\ exc' = PublishError("fill_title_step")
             ELSE pc' = "fill_content" /\ UNCHANGED exc
  /\ UNCHANGED <<entry, note, result, report, driver, pollVars, inp, out>>

\* _fill_note_content: the body
FillContentStepUnchecked ==
  /\ pc = "fill_content"
  /\ \E e \in EditorEnvsSmall, failAt \in {0, 5} :
       LET r == FillContent(note.content, e, failAt)
       IN /\ log' = log \o <<Op("log", <<"fill_content">>)>> \o r.ops
          /\ IF r.exc # NoExc THEN pc' = "proc_except" /\ exc' = r.exc
             ELSE pc' = "fill_topics" /\ UNCHANGED exc
  /\ UNCHANGED <<entry, note, result, report, driver, pollVars, inp, out>>

FillContentStep ==
  /\ pc = "fill_content"
  /\ \E e \in EditorEnvsSmall, failAt \in {0, 5} :
       LET r == FillContent(note.content, e, failAt)
       IN /\ log' = log \o <<Op("log", <<"fill_content">>)>> \o r.ops
          /\ IF r.exc # NoExc THEN pc' = "proc_except" /\ exc' = r.exc
             ELSE IF ~r.ret
                  THEN pc' = "proc_except" /\ exc' = PublishError("fill_content_step")
             ELSE pc' = "fill_topics" /\ UNCHANGED exc
  /\ UNCHANGED <<entry, note, result, report, driver, pollVars, inp, out>>

\* _fill_note_content: the topics; the value fill_topics returns is not used
FillTopicsStep ==
  /\ pc = "fill_topics"
  /\ IF note.topics = <<>>
     THEN /\ log' = log \o <<Op("log", <<"no_topics">>)>>
          /\ pc' = "submit" /\ UNCHANGED exc
     ELSE \E e \in EditorEnvsSmall, failAt \in {0, 1, 6} :
            LET r == FillTopics(note.topics, e, failAt)
            IN /\ log' = log \o <<Op("log", <<"fill_topics">>)>> \o r.ops
                         \o (IF r.failed THEN <<Op("warn", <<"topics">>)>> ELSE <<>>)
               /\ IF r.exc # NoExc THEN pc' = "proc_except" /\ exc' = r.exc
                  ELSE pc' = "submit" /\ UNCHANGED exc
  /\ UNCHANGED <<entry, note, result, report, driver, pollVars, inp, out>>

SubmitStep ==
  /\ pc = "submit"
  /\ \E e \in SubmitEnvsSmall :
       LET r == SubmitNote(e)
       IN /\ log' = log \o <<Op("log", <<"submit">>)>> \o r.ops
          /\ IF r.exc # NoExc
             THEN pc' = "proc_except" /\ exc' = r.exc /\ UNCHANGED result
             ELSE pc' = "pn_finally" /\ result' = "success" /\ UNCHANGED exc
  /\ UNCHANGED <<entry, note, report, driver, pollVars, inp, out>>

\* the screenshot only for an exception that is not a PublishError
ProcessExceptScreenshotElse ==
  /\ pc = "proc_except"
  /\ log' = IF exc.type = "PublishError" THEN log
            ELSE Append(log, Op("take_screenshot", <<>>))
  /\ exc' = IF exc.type = "PublishError" THEN exc ELSE RaisedFrom("process", exc)
  /\ pc' = "pn_except"
  /\ UNCHANGED <<entry, note, result, report, driver, pollVars, inp, out>>

\* the except clause of _publish_note_process: screenshot, then raise
ProcessExcept ==
  /\ pc = "proc_except"
  /\ log' = Append(log, Op("take_screenshot", <<>>))
  /\ exc' = IF exc.type = "PublishError" THEN exc ELSE RaisedFrom("process", exc)
  /\ pc' = "pn_except"
  /\ UNCHANGED <<entry, note, result, report, driver, pollVars, inp, out>>

\* the except clause of publish_note
PublishNoteExcept ==
  /\ pc = "pn_except"
  /\ exc' = IF exc.type = "PublishError" THEN exc ELSE RaisedFrom("init", exc)
  /\ pc' = "pn_finally"
  /\ UNCHANGED <<entry, note, log, result, report, driver, pollVars, inp, out>>

\* the finally clause of publish_note
PublishNoteFinallyNoClose ==
  /\ pc = "pn_finally"
  /\ IF exc = NoExc
     THEN log' = Append(log, Op("close_driver", <<>>)) /\ driver' = "closed"
     ELSE UNCHANGED <<log, driver>>
  /\ pc' = "returned"
  /\ UNCHANGED <<entry, note, exc, result, report, pollVars, inp, out>>

PublishNoteFinally ==
  /\ pc = "pn_finally"
  /\ log' = Append(log, Op("close_driver", <<>>))
  /\ driver' = IF driver = "open" THEN "closed" ELSE driver
  /\ pc' = "returned"
  /\ UNCHANGED <<entry, note, exc, result, report, pollVars, inp, out>>

\* publish_task after publish_note: print the outcome
TaskReport ==
  /\ pc = "returned"
  /\ entry = "cli"
  /\ report' = IF exc # NoExc THEN "exception"
               ELSE IF result = "success" THEN "published" ELSE "publish_failed"
  /\ pc' = "task_done"
  /\ UNCHANGED <<entry, note, log, exc, result, driver, pollVars, inp, out>>

Fresh ==
  /\ log = <<>> /\ exc = NoExc /\ result = "none" /\ report = "none"
  /\ driver = "none"
  /\ elapsed_time = 0 /\ success_found = FALSE /\ checks = 0
  /\ out = NoOut

Init ==
  /\ Fresh
  /\ \/ entry = "cli" /\ pc = "task" /\ inp \in TaskInputs /\ note = NoNote
     \/ entry = "api" /\ pc = "publish_note" /\ inp = NoInp /\ note \in ApiNotes

Next ==
  \/ PublishTask
  \/ CreateDriver
  \/ NavigateToCreatorCenter
  \/ LoadCookies
  \/ OpenPublishPage
  \/ SwitchMode
  \/ Upload
  \/ PollCheck
  \/ PollExit
  \/ UploadReturn
  \/ FillTitleStep
  \/ FillContentStep
  \/ FillTopicsStep
  \/ SubmitStep
  \/ ProcessExcept
  \/ PublishNoteExcept
  \/ PublishNoteFinally
  \/ TaskReport

Spec == Init /\ [][Next]_vars

(***************************************************************************)
(* Body fill on its own: every body up to MaxBodyLen, every failure point. *)
(***************************************************************************)
Bodies == SeqsUpTo(BodyChars, MaxBodyLen)

Idle == Fresh /\ entry = "none" /\ note = NoNote

InitBody ==
  /\ Idle
  /\ pc = "body_call"
  /\ inp \in [text : Bodies, failAt : 0..MaxFailAt]

BodyFill ==
  /\ pc = "body_call"
  /\ out' = PerformContentFill(inp.text, inp.failAt)
  /\ pc' = "body_ret"
  /\ UNCHANGED <<entry, note, log, exc, result, report, driver, pollVars, inp>>

NextBody == BodyFill
SpecBody == InitBody /\ [][NextBody]_vars

(***************************************************************************)
(* fill_topics on its own: every topic list up to MaxTopicCount topics of  *)
(* up to MaxTopicLen characters, an editor found or not, every failure     *)
(* point.                                                                  *)
(***************************************************************************)
TopicLists == SeqsUpTo(SeqsUpTo(TopicChars, MaxTopicLen), MaxTopicCount)

InitTopics ==
  /\ Idle
  /\ pc = "topics_call"
  /\ inp \in [topics : TopicLists, ed : EditorEnvsSmall, failAt : 0..MaxFailAt]

TopicsFill ==
  /\ pc = "topics_call"
  /\ out' = FillTopics(inp.topics, inp.ed, inp.failAt)
  /\ pc' = "topics_ret"
  /\ UNCHANGED <<entry, note, log, exc, result, report, driver, pollVars, inp>>

NextTopics == TopicsFill
SpecTopics == InitTopics /\ [][NextTopics]_vars

(***************************************************************************)
(* Resolution of a role on its own: the title input, the submit button     *)
(* (with the click that follows it) and the editor's direct queries,       *)
(* against every combination of element states.                            *)
(***************************************************************************)
CandStates(n) == [1..n -> ElementStates]

ResolveInputs ==
  [role : {"title"}, cands : CandStates(NumTitleSelectors), clickOk : {TRUE}]
  \cup [role : {"submit"}, cands : CandStates(NumSubmitSelectors), clickOk : BOOLEAN]
  \cup [role : {"editor"}, cands : CandStates(NumEditorSelectors), clickOk : {TRUE}]

InitResolve ==
  /\ Idle
  /\ pc = "resolve_call"
  /\ inp \in ResolveInputs

ResolveTitle ==
  /\ pc = "resolve_call" /\ inp.role = "title"
  /\ LET r == FindTitleInput(inp.cands)
     IN out' = [el |-> r.el, ops |-> r.ops, ret |-> r.el # None,
                exc |-> IF r.el = None THEN PublishError("title_fill") ELSE NoExc]
  /\ pc' = "resolve_ret"
  /\ UNCHANGED <<entry, note, log, exc, result, report, driver, pollVars, inp>>

ResolveSubmit ==
  /\ pc = "resolve_call" /\ inp.role = "submit"
  /\ LET r == SubmitNote([submit |-> inp.cands, clickOk |-> inp.clickOk, urlOk |-> TRUE])
     IN out' = [el |-> FindSubmitBtn(inp.cands).el, ops |-> r.ops, ret |-> r.ret,
                exc |-> r.exc]
  /\ pc' = "resolve_ret"
  /\ UNCHANGED <<entry, note, log, exc, result, report, driver, pollVars, inp>>

\* the editor with no title field on the page: the TAB fallback has no anchor
ResolveEditor ==
  /\ pc = "resolve_call" /\ inp.role = "editor"
  /\ LET r == FindContentEditor(EditorEnv(inp.cands, AllAbsent(NumTitleSelectors),
                                          "input", TRUE, "div", "div"))
     IN out' = [el |-> r.el, ops |-> r.ops, ret |-> r.el # None,
                exc |-> IF r.el = None THEN PublishError("content_fill") ELSE NoExc]
  /\ pc' = "resolve_ret"
  /\ UNCHANGED <<entry, note, log, exc, result, report, driver, pollVars, inp>>

NextResolve == ResolveTitle \/ ResolveSubmit \/ ResolveEditor
SpecResolve == InitResolve /\ [][NextResolve]_vars

(***************************************************************************)
(* fill_title and fill_content on their own: every title up to MaxTitleLen *)
(* characters against a title field found or not and every read-back;      *)
(* every body up to MaxBodyLen + 1 characters against the three editor     *)
(* pages; a short body, and the editor lookup alone, against every course   *)
(* of the TAB fallback.                                                    *)
(***************************************************************************)
FillTitles == SeqsUpTo(TitleChars, MaxTitleLen)
FillBodies == SeqsUpTo({"a", "SP", "NL"}, MaxBodyLen + 1)

NoEditor == EditorEnv(AllAbsent(NumEditorSelectors), AllAbsent(NumTitleSelectors),
                      "input", TRUE, "div", "div")

\* no direct query finds the editor: the anchor, its tag, the focus script and
\* the two TAB presses in every combination
EditorEnvsTab ==
  { EditorEnv(direct, title, tag, focusOk, t1, t2) :
      direct \in { AllAbsent(NumEditorSelectors), <<"hidden", "stale", "absent", "absent">> },
      title \in { <<"ok", "absent", "absent">>, <<"hidden", "disabled", "absent">>,
                  AllAbsent(NumTitleSelectors) },
      tag \in {"input", "textarea"}, focusOk \in BOOLEAN,
      t1 \in FocusTargets, t2 \in FocusTargets }

FillInputs ==
  [kind : {"title"}, text : FillTitles,
   title : { <<"ok", "absent", "absent">>, <<"hidden", "ok", "absent">>,
             AllAbsent(NumTitleSelectors) },
   value : {"typed", "empty", "other"}, ed : {NoEditor}, failAt : 0..3]
  \cup [kind : {"content"}, text : FillBodies, title : {AllAbsent(NumTitleSelectors)},
        value : {"typed"}, ed : EditorEnvsSmall, failAt : {0, 4}]
  \cup [kind : {"content", "editor"}, text : {<<"a">>},
        title : {AllAbsent(NumTitleSelectors)},
        value : {"typed"}, ed : EditorEnvsTab, failAt : {0}]

InitFill ==
  /\ Idle
  /\ pc = "fill_call"
  /\ inp \in FillInputs

TitleCall ==
  /\ pc = "fill_call" /\ inp.kind = "title"
  /\ out' = FillTitle(inp.text, [title |-> inp.title, value |-> inp.value], inp.failAt)
  /\ pc' = "fill_ret"
  /\ UNCHANGED <<entry, note, log, exc, result, report, driver, pollVars, inp>>

ContentCall ==
  /\ pc = "fill_call" /\ inp.kind = "content"
  /\ out' = FillContent(inp.text, inp.ed, inp.failAt)
  /\ pc' = "fill_ret"
  /\ UNCHANGED <<entry, note, log, exc, result, report, driver, pollVars, inp>>

\* _find_content_editor alone: the element it returns
EditorCall ==
  /\ pc = "fill_call" /\ inp.kind = "editor"
  /\ LET r == FindContentEditor(inp.ed)
     IN out' = [el |-> r.el, ops |-> r.ops, ret |-> r.el # None, exc |-> NoExc]
  /\ pc' = "fill_ret"
  /\ UNCHANGED <<entry, note, log, exc, result, report, driver, pollVars, inp>>

NextFill == TitleCall \/ ContentCall \/ EditorCall
SpecFill == InitFill /\ [][NextFill]_vars

(***************************************************************************)
(* _switch_publish_mode on its own: notes with or without images and       *)
(* videos against every page of up to MaxTabs tabs.                        *)
(***************************************************************************)
\* on the screen, left of it, at its upper edge
TabPlaces == { <<1, 1>>, <<-1, 1>>, <<1, 0>> }

TabSet ==
  { Tab("image", displayed, at[1], at[2], FALSE, FALSE) :
      displayed \in BOOLEAN, at \in TabPlaces }
  \cup { Tab("video", displayed, at[1], at[2], active, FALSE) :
           displayed \in BOOLEAN, at \in TabPlaces, active \in BOOLEAN }
  \cup { Tab("other", TRUE, 1, 1, FALSE, FALSE), Tab("image", TRUE, 1, 1, FALSE, TRUE) }

ModeInputs ==
  [images : {<<>>, <<"p1">>}, videos : {<<>>, <<"v1">>},
   page : [tabs : SeqsUpTo(TabSet, MaxTabs), findOk : BOOLEAN, clickOk : BOOLEAN]]

InitMode ==
  /\ Idle
  /\ pc = "mode_call"
  /\ inp \in ModeInputs

ModeCall ==
  /\ pc = "mode_call"
  /\ out' = [ops |-> SwitchPublishMode([images |-> inp.images, videos |-> inp.videos],
                                       inp.page),
             ret |-> TRUE, exc |-> NoExc]
  /\ pc' = "mode_ret"
  /\ UNCHANGED <<entry, note, log, exc, result, report, driver, pollVars, inp>>

NextMode == ModeCall
SpecMode == InitMode /\ [][NextMode]_vars

(***************************************************************************)
(* _handle_file_upload on its own: notes with up to MaxPaths images and up  *)
(* to two videos, against upload controls found by a selector, by the      *)
(* XPath query or not at all, and a send that goes through or raises.      *)
(***************************************************************************)
Videos == {"v1", "v2"}
VideoLists == {l \in SeqsUpTo(Videos, 2) : \A i, j \in 1..Len(l) : l[i] = l[j] => i = j}

UploadEnvs ==
  [upload : { AllAbsent(NumUploadSelectors),
              <<"hidden", "ok", "absent", "absent", "absent", "absent", "absent">>,
              <<"stale", "absent", "hidden", "absent", "absent", "absent", "disabled">>,
              <<"hidden", "hidden", "hidden", "stale", "absent", "absent", "hidden">> },
   xpathFound : BOOLEAN, sendOk : BOOLEAN]

InitUpload ==
  /\ Idle
  /\ pc = "upload_call"
  /\ inp \in [images : PathLists, videos : VideoLists, page : UploadEnvs]

UploadCall ==
  /\ pc = "upload_call"
  /\ out' = HandleFileUpload([images |-> inp.images, videos |-> inp.videos], inp.page)
  /\ pc' = "upload_ret"
  /\ UNCHANGED <<entry, note, log, exc, result, report, driver, pollVars, inp>>

NextUpload == UploadCall
SpecUpload == InitUpload /\ [][NextUpload]_vars

(***************************************************************************)
(* The two-phase entry points: upload_files_only, then                     *)
(* fill_and_publish_existing on the session the first phase left.  The     *)
(* handlers return the operations performed, the success flag of the       *)
(* result, the exception that leaves the call (none: both catch            *)
(* everything), the exception caught, whether a driver was live on entry   *)
(* and the state of the session on return.                                 *)
(***************************************************************************)
AttributeError == [type |-> "AttributeError", step |-> "none", cause |-> "none"]

CloseOp == Op("close", <<>>)

\* browser_manager.close(): ends the session if there is one
BrowserClose(d) == IF d = "open" THEN "closed" ELSE d

SelectorNames == <<"1", "2", "3", "4", "5", "6">>

\* for selector in selectors: try: el = lookup(selector); if test(el): break
\* except: continue.  A lookup that raises leaves el as it was; a test that
\* fails or raises leaves el set and goes on to the next selector.
RECURSIVE Probe(_, _, _, _, _)
Probe(name, cands, accept, i, held) ==
  IF i > Len(cands) THEN [ops |-> <<>>, el |-> held]
  ELSE LET o == Op(name, <<SelectorNames[i]>>)
       IN IF cands[i] \in accept THEN [ops |-> <<o>>, el |-> i]
          ELSE LET rest == Probe(name, cands, accept, i + 1,
                                 IF cands[i] = "absent" THEN held ELSE i)
               IN [ops |-> <<o>> \o rest.ops, el |-> rest.el]

FillNoteContentExisting(page) ==
  LET t == Probe("check_title", page.title, {"ok", "disabled"}, 1, 0)
      c == Probe("check_content", page.content, {"ok", "disabled"}, 1, 0)
  IN IF t.el = 0
     THEN [ops |-> t.ops, exc |-> RaisedFrom("check_page", PublishError("check_title"))]
     ELSE IF c.el = 0
          THEN [ops |-> t.ops \o c.ops,
                exc |-> RaisedFrom("check_page", PublishError("check_content"))]
          ELSE [ops |-> t.ops \o c.ops, exc |-> NoExc]

SubmitNoteExisting(page) ==
  LET b == Probe("find_publish", page.submit, {"ok"}, 1, 0)
  IN IF b.el = 0
     THEN [ops |-> b.ops, exc |-> RaisedFrom("submit", PublishError("check_publish"))]
     ELSE IF page.submit[b.el] \in {"hidden", "stale"} \/ ~page.clickOk
          THEN [ops |-> b.ops, exc |-> RaisedFrom("submit", OtherError)]
          ELSE [ops |-> b.ops \o <<Op("click_publish", <<SelectorNames[b.el]>>),
                                    Op("current_url", <<>>)>>,
                exc |-> NoExc]

\* the check for a live driver is left out
FillAndPublishExistingNoCheck(d, page) ==
  LET f == FillNoteContentExisting(page)
      s == SubmitNoteExisting(page)
  IN IF f.exc # NoExc
     THEN [ops |-> f.ops \o <<CloseOp>>, ret |-> FALSE, exc |-> NoExc,
           error |-> f.exc, live |-> d = "open", session |-> BrowserClose(d)]
     ELSE [ops |-> f.ops \o s.ops \o <<CloseOp>>, ret |-> s.exc = NoExc,
           exc |-> NoExc, error |-> s.exc, live |-> d = "open",
           session |-> BrowserClose(d)]

FillAndPublishExisting(d, page) ==
  IF d # "open"
  THEN [ops |-> <<CloseOp>>, ret |-> FALSE, exc |-> NoExc,
        error |-> PublishError("check_browser"), live |-> FALSE,
        session |-> BrowserClose(d)]
  ELSE LET f == FillNoteContentExisting(page)
           s == SubmitNoteExisting(page)
       IN IF f.exc # NoExc
          THEN [ops |-> f.ops \o <<CloseOp>>, ret |-> FALSE, exc |-> NoExc,
                error |-> f.exc, live |-> TRUE, session |-> BrowserClose(d)]
          ELSE [ops |-> f.ops \o s.ops \o <<CloseOp>>, ret |-> s.exc = NoExc,
                exc |-> NoExc, error |-> s.exc, live |-> TRUE,
                session |-> BrowserClose(d)]

\* upload_files_only: its first statement calls self._init_browser(), which
\* XHSClient does not define; the AttributeError is caught by the handler,
\* which closes the browser and returns the failure result.  The navigation
\* and the upload are never reached.
UploadFilesOnly(n, d) ==
  [ops |-> <<CloseOp>>, ret |-> FALSE, exc |-> NoExc, error |-> AttributeError,
   live |-> d = "open", session |-> BrowserClose(d)]

InputCands ==
  { AllAbsent(6),
    <<"ok", "absent", "absent", "absent", "absent", "absent">>,
    <<"hidden", "absent", "absent", "absent", "absent", "absent">>,
    <<"absent", "stale", "ok", "absent", "absent", "absent">> }

PublishCands ==
  { AllAbsent(5),
    <<"ok", "absent", "absent", "absent", "absent">>,
    <<"disabled", "absent", "absent", "absent", "absent">>,
    <<"absent", "hidden", "absent", "absent", "ok">>,
    <<"stale", "absent", "absent", "absent", "absent">> }

ExistingPages ==
  [title : InputCands, content : InputCands, submit : PublishCands, clickOk : BOOLEAN]

PhaseNotes ==
  {[title |-> <<"a">>, content |-> <<"a">>, images |-> im, videos |-> <<>>,
    topics |-> <<>>] : im \in {<<>>, <<"p1">>}}

InitPhases ==
  /\ Idle
  /\ pc = "idle"
  /\ inp \in [note : PhaseNotes, page : ExistingPages]

\* the holder of the client starts a browser through its browser_manager
OpenSession ==
  /\ pc = "idle" /\ driver = "none"
  /\ driver' = "open"
  /\ log' = Append(log, Op("create_driver", <<>>))
  /\ UNCHANGED <<pc, entry, note, exc, result, report, pollVars, inp, out>>

UploadOnlyCall ==
  /\ pc = "idle"
  /\ out' = UploadFilesOnly(inp.note, driver)
  /\ log' = log \o out'.ops
  /\ driver' = out'.session
  /\ pc' = "upload_only_ret"
  /\ UNCHANGED <<entry, note, exc, result, report, pollVars, inp>>

ExistingCall ==
  /\ pc \in {"idle", "upload_only_ret"}
  /\ out' = FillAndPublishExisting(driver, inp.page)
  /\ log' = log \o out'.ops
  /\ driver' = out'.session
  /\ pc' = "existing_ret"
  /\ UNCHANGED <<entry, note, exc, result, report, pollVars, inp>>

NextPhases == OpenSession \/ UploadOnlyCall \/ ExistingCall
SpecPhases == InitPhases /\ [][NextPhases]_vars

(***************************************************************************)
(* The MCP tool publish_xhs_note and the CLI it runs as a subprocess.  A   *)
(* line of standard output is a sequence of tokens: a tag for the fixed    *)
(* text of the print statement, then the tokens of the value formatted     *)
(* into it.  The logging module writes to standard error.  i: what the     *)
(* subprocess meets (the file, its fields, the images, the client, the     *)
(* outcome of publish_note).                                               *)
(***************************************************************************)
SUCCESS_MARKER == "__PUBLISH_SUCCESS__"

\* "marker" in output
ContainsToken(lines, tok) ==
  \E k \in 1..Len(lines) : \E m \in 1..Len(lines[k]) : lines[k][m] = tok

\* publish_task: what it prints, in order
PublishTaskStdout(i) ==
  LET head == <<<<"read_file:">> \o i.json_path, <<"image_count:">>>>
  IN IF ~i.jsonExists THEN head \o <<<<"no_json_file:">> \o i.json_path>>
     ELSE IF ~i.parseOk THEN head \o <<<<"json_parse_failed:">>>>
     ELSE IF i.title = <<>> \/ ~i.hasContent THEN head \o <<<<"missing_title_or_content">>>>
     ELSE IF ~i.validImages THEN head \o <<<<"image_missing:">>, <<"no_valid_images">>>>
     ELSE IF ~i.clientOk THEN head \o <<<<"client_init_failed:">>, <<"check_env">>>>
     ELSE head \o <<<<"init_client">>, <<"prepare:">> \o i.title>>
          \o (IF i.publish = "success"
               THEN <<<<"publish_ok">>, <<"link_zh:", "url">>>>
               ELSE IF i.publish = "failure" THEN <<<<"publish_failed:", "message">>>>
               ELSE <<<<"publish_exception:", "message">>>>)

\* the publish ran and its result was successful
Published(i) ==
  /\ i.importOk /\ i.jsonExists /\ i.parseOk /\ i.title # <<>> /\ i.hasContent
  /\ i.validImages /\ i.clientOk /\ i.publish = "success"

\* run_publish_cli.py as a process: standard output and return code
RunPublishCli(i) ==
  IF ~i.importOk
  THEN [stdout |-> <<<<"import_error:">>, <<"current_path:">>, <<"check_src">>>>,
        returncode |-> 1]
  ELSE [stdout |-> PublishTaskStdout(i), returncode |-> 0]

\* the link that publish_xhs_note reports: the last line that starts "Link:"
LinkOf(lines) ==
  IF \E k \in 1..Len(lines) : lines[k][1] = "Link:"
  THEN LET k == CHOOSE j \in 1..Len(lines) :
                  lines[j][1] = "Link:" /\ \A m \in (j + 1)..Len(lines) : lines[m][1] # "Link:"
       IN Tail(lines[k])
  ELSE <<"Unknown">>

\* publish_xhs_note once the subprocess has ended (or could not be started)
PublishXhsNote(i, proc) ==
  IF ~i.spawnOk THEN [message |-> "server_error", link |-> <<>>]
  ELSE IF proc.returncode # 0 THEN [message |-> "process_failed", link |-> <<>>]
  ELSE IF ContainsToken(proc.stdout, SUCCESS_MARKER)
       THEN [message |-> "success", link |-> LinkOf(proc.stdout)]
       ELSE [message |-> "no_marker", link |-> <<>>]

McpPaths == {<<"note.json">>, <<"dir", SUCCESS_MARKER, "note.json">>}
McpTitles == {<<>>, <<"a">>, <<"a", SUCCESS_MARKER>>}

McpInputs ==
  [json_path : McpPaths, title : McpTitles, jsonExists : BOOLEAN, parseOk : BOOLEAN,
   hasContent : BOOLEAN, validImages : BOOLEAN, clientOk : BOOLEAN,
   publish : {"success", "failure", "exception"}, importOk : BOOLEAN,
   spawnOk : BOOLEAN]

NoProc == [stdout |-> <<>>, returncode |-> 0]

InitMcp ==
  /\ Idle
  /\ pc = "mcp_call"
  /\ inp \in McpInputs

\* create_subprocess_exec and communicate
McpDelegate ==
  /\ pc = "mcp_call"
  /\ IF inp.spawnOk
     THEN /\ out' = RunPublishCli(inp)
          /\ report' = IF Published(inp) THEN "published" ELSE "not_published"
          /\ pc' = "cli_done"
     ELSE /\ out' = NoProc
          /\ report' = "not_run"
          /\ pc' = "cli_done"
  /\ UNCHANGED <<entry, note, log, exc, result, driver, pollVars, inp>>

\* the message returned to the MCP client
McpReturn ==
  /\ pc = "cli_done"
  /\ result' = PublishXhsNote(inp, out).message
  /\ pc' = "mcp_ret"
  /\ UNCHANGED <<entry, note, log, exc, report, driver, pollVars, inp, out>>

NextMcp == McpDelegate \/ McpReturn
SpecMcp == InitMcp /\ [][NextMcp]_vars

(***************************************************************************)
(* run_agent: the tool-calling loop of the report generator.  The state    *)
(* of a run (seen_turns, the number of tool invocations executed so far,   *)
(* whether content holds a non-blank text, the number of passes of the     *)
(* loop, counted up to MaxPasses) is kept in out.  One action is one pass  *)
(* of `while True`.  reply: what chat.invoke does in that pass;            *)
(* reply.calls: for each tool call of the reply, whether its tool returns  *)
(* ("ok"), raises ("raise"), or has a name the loop does not know          *)
(* ("unknown").                                                            *)
(***************************************************************************)
max_turns == 15
MaxPasses == max_turns + 2

\* for tc in tool_calls: ... from the k-th call on
RECURSIVE RunToolCalls(_, _, _, _)
RunToolCalls(calls, k, seen, runs) ==
  IF k > Len(calls) THEN [seen_turns |-> seen, tool_runs |-> runs, raised |-> FALSE]
  ELSE IF calls[k] = "raise"
       THEN [seen_turns |-> seen, tool_runs |-> runs + 1, raised |-> TRUE]
  ELSE LET r == IF calls[k] = "ok" THEN runs + 1 ELSE runs
       IN IF seen + 1 >= max_turns
          THEN [seen_turns |-> seen + 1, tool_runs |-> r, raised |-> FALSE]
          ELSE RunToolCalls(calls, k + 1, seen + 1, r)

\* a reply without text and without tool calls is not counted as a turn
AgentPassNoBlankCount(st, reply) ==
  IF reply.kind = "error"
  THEN [st |-> st, next |-> "agent_raised"]
  ELSE IF reply.kind = "inspection_failed"
  THEN [st |-> [st EXCEPT !.seen_turns = @ + 1],
        next |-> IF st.seen_turns + 1 >= max_turns THEN "agent_final" ELSE "agent_loop"]
  ELSE IF reply.kind = "text"
  THEN [st |-> [st EXCEPT !.content = TRUE], next |-> "agent_final"]
  ELSE IF reply.kind = "blank"
  THEN [st |-> st, next |-> "agent_loop"]
  ELSE LET r == RunToolCalls(reply.calls, 1, st.seen_turns, st.tool_runs)
       IN [st |-> [st EXCEPT !.seen_turns = r.seen_turns, !.tool_runs = r.tool_runs],
           next |-> IF r.raised THEN "agent_raised"
                    ELSE IF r.seen_turns >= max_turns THEN "agent_final"
                    ELSE "agent_loop"]

\* one pass of the loop: the state after it and where control goes
AgentPass(st, reply) ==
  IF reply.kind = "error"
  THEN [st |-> st, next |-> "agent_raised"]
  ELSE IF reply.kind = "inspection_failed"
  THEN [st |-> [st EXCEPT !.seen_turns = @ + 1],
        next |-> IF st.seen_turns + 1 >= max_turns THEN "agent_final" ELSE "agent_loop"]
  ELSE IF reply.kind = "text"
  THEN [st |-> [st EXCEPT !.content = TRUE], next |-> "agent_final"]
  ELSE IF reply.kind = "blank"
  THEN [st |-> [st EXCEPT !.seen_turns = @ + 1],
        next |-> IF st.seen_turns + 1 >= max_turns THEN "agent_final" ELSE "agent_loop"]
  ELSE LET r == RunToolCalls(reply.calls, 1, st.seen_turns, st.tool_runs)
       IN [st |-> [st EXCEPT !.seen_turns = r.seen_turns, !.tool_runs = r.tool_runs],
           next |-> IF r.raised THEN "agent_raised"
                    ELSE IF r.seen_turns >= max_turns THEN "agent_final"
                    ELSE "agent_loop"]

ToolCallLists ==
  {l \in SeqsUpTo({"ok", "raise", "unknown"}, MaxToolCalls) : l # <<>>}

Replies ==
  [kind : {"error", "inspection_failed", "text", "blank"}, calls : {<<>>}]
    \cup [kind : {"tools"}, calls : ToolCallLists]

InitAgent ==
  /\ log = <<>> /\ exc = NoExc /\ result = "none" /\ report = "none"
  /\ driver = "none"
  /\ elapsed_time = 0 /\ success_found = FALSE /\ checks = 0
  /\ entry = "none" /\ note = NoNote /\ inp = NoInp
  /\ out = [seen_turns |-> 0, tool_runs |-> 0, content |-> FALSE, passes |-> 0]
  /\ pc = "agent_loop"

AgentLoop ==
  /\ pc = "agent_loop"
  /\ \E reply \in Replies :
       /\ out' = [AgentPass(out, reply).st EXCEPT
                   !.passes = IF @ < MaxPasses THEN @ + 1 ELSE @]
       /\ pc' = AgentPass(out, reply).next
  /\ UNCHANGED <<entry, note, log, exc, result, report, driver, pollVars, inp>>

\* after the loop: one more model call, without tools, when there is no text
AgentFinal ==
  /\ pc = "agent_final"
  /\ IF out.content THEN pc' = "agent_done" /\ UNCHANGED out
     ELSE \E ok \in BOOLEAN :
            IF ok THEN pc' = "agent_done" /\ out' = [out EXCEPT !.content = TRUE]
            ELSE pc' = "agent_raised" /\ UNCHANGED out
  /\ UNCHANGED <<entry, note, log, exc, result, report, driver, pollVars, inp>>

NextAgent == AgentLoop \/ AgentFinal
SpecAgent == InitAgent /\ [][NextAgent]_vars /\ WF_vars(NextAgent)

(***************************************************************************)
(* clamp_limit.  A value of the tool arguments is [kind, v]: an int v, a   *)
(* float of v halves, a string that spells the int v, a string that spells *)
(* no int, or None.  The arguments are [dict, items]: whether they are a   *)
(* dict, and the dict as a function from its keys.                         *)
(***************************************************************************)
IntValue(v) == [kind |-> "int", v |-> v]

\* int(x): the int itself, the float cut towards zero, the string parsed;
\* raises for a string that spells no int and for None
IntOf(x) ==
  IF x.kind = "int" \/ x.kind = "str_int" THEN [ok |-> TRUE, n |-> x.v]
  ELSE IF x.kind = "float"
       THEN [ok |-> TRUE, n |-> IF x.v >= 0 THEN x.v \div 2 ELSE -((-x.v) \div 2)]
  ELSE [ok |-> FALSE, n |-> 0]

Min(a, b) == IF a <= b THEN a ELSE b

\* a requested limit of zero or less is let through
ClampLimitNoFloor(args, user_limit) ==
  IF ~args.dict THEN args
  ELSE IF "limit" \in DOMAIN args.items
       THEN LET n == IF IntOf(args.items["limit"]).ok THEN IntOf(args.items["limit"]).n
                     ELSE user_limit
            IN [args EXCEPT !.items["limit"] = IntValue(Min(n, user_limit))]
       ELSE args

ClampLimit(args, user_limit) ==
  IF ~args.dict THEN args
  ELSE IF "limit" \in DOMAIN args.items
       THEN LET n0 == IF IntOf(args.items["limit"]).ok THEN IntOf(args.items["limit"]).n
                      ELSE user_limit
                n == IF n0 <= 0 THEN user_limit ELSE n0
            IN [args EXCEPT !.items["limit"] = IntValue(Min(n, user_limit))]
       ELSE args

ArgValues ==
  [kind : {"int", "str_int"}, v : (-2)..(MaxLimit + 2)]
    \cup [kind : {"float"}, v : (-3)..(2 * MaxLimit + 3)]
    \cup [kind : {"str", "none"}, v : {0}]

ArgDicts ==
  UNION {[K -> ArgValues] : K \in {{"limit"}, {"limit", "table"}}}
    \cup {[k \in {} |-> IntValue(0)], [k \in {"table"} |-> [kind |-> "str", v |-> 0]]}

ClampInputs ==
  [args : [dict : {TRUE}, items : {d \in ArgDicts : "table" \in DOMAIN d =>
                                                     d["table"] = [kind |-> "str", v |-> 0]}]
            \cup [dict : {FALSE}, items : {[k \in {} |-> IntValue(0)]}],
   user_limit : 1..MaxLimit]

InitClamp ==
  /\ Idle
  /\ pc = "clamp_call"
  /\ inp \in ClampInputs

ClampCall ==
  /\ pc = "clamp_call"
  /\ out' = ClampLimit(inp.args, inp.user_limit)
  /\ pc' = "clamp_ret"
  /\ UNCHANGED <<entry, note, log, exc, result, report, driver, pollVars, inp>>

NextClamp == ClampCall
SpecClamp == InitClamp /\ [][NextClamp]_vars

(***************************************************************************)
(* The video poll on its own.                                              *)
(***************************************************************************)
InitPoll == Idle /\ pc = "poll" /\ inp = NoInp

NextPoll == PollCheck \/ PollExit
SpecPoll == InitPoll /\ [][NextPoll]_vars

(***************************************************************************)
(* Properties.                                                             *)
(***************************************************************************)
RECURSIVE CountOp(_, _)
CountOp(ops, name) ==
  IF ops = <<>> THEN 0
  ELSE (IF ops[1].op = name THEN 1 ELSE 0) + CountOp(Tail(ops), name)

HasOp(ops, o) == \E i \in 1..Len(ops) : ops[i] = o
Enter == Op("send_keys", <<"ENTER">>)

\* publish_note is running (its finally clause has not run yet)
InPublishNote ==
  pc \in {"publish_note", "navigate", "load_cookies", "open_page", "switch_mode",
          "upload", "poll", "poll_done", "fill_title", "fill_content",
          "fill_topics", "submit", "proc_except", "pn_except", "pn_finally"}

\* publish_note has been executed to its end
PublishNoteOver ==
  pc = "returned" \/ (pc = "task_done" /\ report \in {"published", "exception", "publish_failed"})

\* C1: once publish_note is over, whatever step failed, close_driver has been
\* called exactly once and is the last browser operation of the attempt; while
\* publish_note runs, it has not been called.
C1_ClosedExactlyOnce ==
  /\ entry # "none" /\ InPublishNote => CountOp(log, "close_driver") = 0
  /\ entry # "none" /\ PublishNoteOver =>
       /\ CountOp(log, "close_driver") = 1
       /\ log[Len(log)].op = "close_driver"

\* a failed body fill: the session was open and has been closed, once
C1_Witness ==
  /\ pc = "returned" /\ exc = PublishError("fill_content_step")
  /\ driver = "closed" /\ CountOp(log, "close_driver") = 1

TopicsInvalid(topics) ==
  \/ Len(topics) > MAX_TOPICS
  \/ \E i \in 1..Len(topics) : Len(topics[i]) > MAX_TOPIC_LENGTH

\* C3: fill_topics called with more than MAX_TOPICS topics, or with a topic
\* longer than MAX_TOPIC_LENGTH, fails before any DOM interaction: it performs
\* no editor lookup, click or keystroke and does not report success.
C3_TopicsValidatedFirst ==
  (pc = "topics_ret" /\ TopicsInvalid(inp.topics)) => (out.ops = <<>> /\ ~out.ret)

InsertArgs(ops) ==
  LET ins == SelectSeq(ops, LAMBDA o : o.op = "insertText")
  IN [i \in 1..Len(ins) |-> ins[i].arg]

\* the operations of a body fill after the editor has been cleared
Injection(ops) == SubSeq(ops, Len(ClearEditorOps) + 1, Len(ops))

\* the text the injected operations produce: insertions joined by line feeds
RECURSIVE Rendered(_)
Rendered(ops) ==
  IF ops = <<>> THEN <<>>
  ELSE (IF ops[1].op = "insertText" THEN ops[1].arg ELSE <<"NL">>) \o Rendered(Tail(ops))

CountChar(s, c) == Cardinality({i \in 1..Len(s) : s[i] = c})
CountEscaped(s) == Cardinality({i \in 1..(Len(s) - 1) : s[i] = "BS" /\ s[i + 1] = "n"})
NonEmpty(pars) == SelectSeq(pars, LAMBDA q : q # <<>>)

\* C4 as stated: the body is cut at its line feeds into n paragraphs; a fill
\* that completes performs one insertion per non-empty paragraph, in order,
\* and n-1 ENTER.
C4_SplitOnLineFeedsOnly ==
  (pc = "body_ret" /\ out.ret) =>
    /\ InsertArgs(out.ops) = NonEmpty(SplitNewline(inp.text))
    /\ CountOp(Injection(out.ops), "send_keys") = CountChar(inp.text, "NL")

\* C4 amended: the body is cut at its line feeds and at its backslash-n
\* pairs into n paragraphs; a fill that completes performs one insertion per
\* non-empty paragraph, in order, and n-1 ENTER, one after every paragraph but
\* the last; no insertion is ever made for an empty paragraph.
C4_BodyFill ==
  pc = "body_ret" =>
    /\ \A i \in 1..Len(out.ops) : out.ops[i].op = "insertText" => out.ops[i].arg # <<>>
    /\ out.ret =>
         /\ SubSeq(out.ops, 1, Len(ClearEditorOps)) = ClearEditorOps
         /\ CountOp(Injection(out.ops), "send_keys")
              = CountChar(inp.text, "NL") + CountEscaped(inp.text)
         /\ \A i \in 1..Len(Injection(out.ops)) :
              Injection(out.ops)[i].op = "send_keys" => Injection(out.ops)[i] = Enter
         /\ InsertArgs(out.ops) = NonEmpty(Paragraphs(inp.text))
         /\ \A i \in 1..(Len(out.ops) - 1) :
              ~(out.ops[i].op = "insertText" /\ out.ops[i + 1].op = "insertText")
         /\ Rendered(Injection(out.ops)) = ReplaceEscapedNewline(inp.text)

\* two lines with an empty one between: two insertions, two ENTER
C4_Witness ==
  /\ pc = "body_ret" /\ out.ret /\ inp.text = <<"a", "NL", "NL", "a">>
  /\ Injection(out.ops) = <<Op("insertText", <<"a">>), Enter, Enter, Op("insertText", <<"a">>)>>

RECURSIVE ExistingInOrder(_, _)
ExistingInOrder(paths, exists) ==
  IF paths = <<>> THEN <<>>
  ELSE (IF paths[1] \in exists THEN <<paths[1]>> ELSE <<>>)
       \o ExistingInOrder(Tail(paths), exists)

TaskChecksPassed == entry = "cli" /\ inp.jsonExists /\ inp.parseOk
                      /\ inp.title # <<>> /\ inp.content # <<>>

\* C5: the note that publish_task publishes carries exactly the paths that
\* exist, in their order, and only those are ever sent; when no path exists
\* the task stops before the client and the browser: no browser operation.
C5_OnlyExistingMedia ==
  (TaskChecksPassed /\ pc # "task") =>
    IF \A i \in 1..Len(inp.image_paths) : inp.image_paths[i] \notin inp.exists
    THEN pc = "task_done" /\ report = "no_images" /\ log = <<>> /\ driver = "none"
    ELSE /\ inp.clientOk =>
              /\ note.images = ExistingInOrder(inp.image_paths, inp.exists)
              /\ note.videos = <<>>
         /\ \A i \in 1..Len(log) : log[i].op = "send_files" =>
              log[i].arg = ExistingInOrder(inp.image_paths, inp.exists)

\* one path of three exists: it alone is sent
C5_Witness ==
  /\ entry = "cli" /\ inp.image_paths = <<"p1", "p2", "p3">> /\ inp.exists = {"p2"}
  /\ HasOp(log, Op("send_files", <<"p2">>))

FirstOk(cands) ==
  CHOOSE i \in 1..Len(cands) : cands[i] = "ok" /\ \A j \in 1..(i - 1) : cands[j] # "ok"

\* C6: when some candidate of the title input or of the submit button is
\* displayed and enabled, the element resolved is that of the first such
\* candidate in list order, and a click of the submit button goes to it.
C6_FirstInteractableWins ==
  (pc = "resolve_ret" /\ inp.role \in {"title", "submit"}
     /\ \E i \in 1..Len(inp.cands) : inp.cands[i] = "ok") =>
    /\ out.el.idx = FirstOk(inp.cands)
    /\ out.el.state = "ok"
    /\ \A i \in 1..Len(out.ops) : out.ops[i].op = "click" =>
         out.ops[i].arg = <<"submit", CandName(FirstOk(inp.cands))>>

\* A hidden, B displayed and enabled, C disabled: B is resolved and clicked
C6_Witness ==
  /\ pc = "resolve_ret" /\ inp.role = "submit"
  /\ inp.cands = <<"hidden", "ok", "disabled", "absent", "absent">>
  /\ out.el.idx = 2 /\ HasOp(out.ops, Op("click", <<"submit", "c2">>))

\* C7: when no candidate of a role is displayed and enabled, resolution
\* fails with the not-found error: no element is returned and none is clicked.
C7_NotFoundWhenNoneInteractable ==
  (pc = "resolve_ret" /\ \A i \in 1..Len(inp.cands) : inp.cands[i] # "ok") =>
    /\ out.el = None
    /\ out.exc # NoExc
    /\ CountOp(out.ops, "click") = 0

\* C8: the poll makes at most max_wait_time / check_interval checks, its
\* elapsed time never exceeds max_wait_time, and it is left without an
\* exception, also when the indicator never shows.
C8_PollBounded ==
  /\ checks <= max_wait_time \div check_interval
  /\ elapsed_time <= max_wait_time
  /\ pc = "poll_done" => exc = NoExc
  /\ (pc = "poll" /\ ~success_found) => elapsed_time = checks * check_interval

\* the indicator never showed: sixty checks, two minutes, a normal return
C8_Witness ==
  /\ pc = "poll_done" /\ ~success_found /\ exc = NoExc
  /\ checks = max_wait_time \div check_interval /\ elapsed_time = max_wait_time

\* C9: fill_topics never leaves with an exception; a step that fails shows
\* in the value returned or is passed over.
C9_TopicsNeverRaise ==
  pc = "topics_ret" => out.exc = NoExc

\* a keystroke failed after the editor was found: True is returned
C9_Witness ==
  /\ pc = "topics_ret" /\ out.failed /\ out.ret /\ out.exc = NoExc
  /\ Len(out.ops) > 0

\* C10: mode selection apart, the steps that may fail without failing the
\* attempt are upload, the poll and topic tagging: each of them hands over
\* to the next step with no exception pending, whatever it met.
C10_OptionalStepsAbsorbed ==
  [][/\ pc = "upload" => (pc' \in {"poll", "fill_title"} /\ exc' = NoExc)
     /\ pc = "poll" => (pc' \in {"poll", "poll_done"} /\ exc' = NoExc)
     /\ pc = "poll_done" => (pc' = "fill_title" /\ exc' = NoExc)
     /\ pc = "fill_topics" => (pc' = "submit" /\ exc' = NoExc)]_vars

\* upload found no control, the poll never ran, a topic keystroke failed,
\* and the note is published
C10_Witness ==
  /\ pc = "returned" /\ result = "success" /\ exc = NoExc
  /\ HasOp(log, Op("warn", <<"upload">>))
  /\ HasOp(log, Op("warn", <<"topics">>))

(***************************************************************************)
(* The steps of an attempt as the log shows them.                          *)
(***************************************************************************)
\* the place of a step in the pipeline, 0 for an operation that starts no step
StepRank(o) ==
  IF o.op = "navigate_to_creator_center" THEN 1
  ELSE IF o = Op("get", <<"publish_page">>) THEN 2
  ELSE IF o = Op("log", <<"switch_mode">>) THEN 3
  ELSE IF o = Op("log", <<"upload">>) THEN 4
  ELSE IF o = Op("log", <<"fill_title">>) THEN 5
  ELSE IF o = Op("log", <<"fill_content">>) THEN 6
  ELSE IF o = Op("log", <<"fill_topics">>) THEN 7
  ELSE IF o = Op("log", <<"submit">>) THEN 8
  ELSE 0

StepStarts(l) == SelectSeq(l, LAMBDA o : StepRank(o) > 0)

Boundary(o) == o.op \in {"log", "warn", "take_screenshot", "close_driver"}

\* the operations a step performed: from its start to the next boundary
StepOps(l, name) ==
  IF ~HasOp(l, Op("log", <<name>>)) THEN <<>>
  ELSE LET i == CHOOSE k \in 1..Len(l) : l[k] = Op("log", <<name>>)
           j == IF \E k \in (i + 1)..Len(l) : Boundary(l[k])
                THEN CHOOSE k \in (i + 1)..Len(l) :
                       Boundary(l[k]) /\ \A m \in (i + 1)..(k - 1) : ~Boundary(l[m])
                ELSE Len(l) + 1
       IN SubSeq(l, i + 1, j - 1)

\* the title fill ran to its read-back and the read-back passed the test
TitleFillSucceeded(l) ==
  LET s == StepOps(l, "fill_title")
  IN /\ Len(s) >= 3
     /\ s[Len(s)].op = "get_value"
     /\ s[Len(s) - 1].op = "send_keys"
     /\ (IsSubstring(s[Len(s) - 1].arg, s[Len(s)].arg) \/ s[Len(s)].arg # <<>>)

\* the body fill cleared the editor and injected the whole body
BodyFillSucceeded(l, content) ==
  LET s == SelectSeq(StepOps(l, "fill_content"),
                     LAMBDA o : o.op \notin {"find", "focus"}
                                /\ o # Op("send_keys", <<"TAB">>))
  IN /\ Len(s) >= Len(ClearEditorOps)
     /\ SubSeq(s, 1, Len(ClearEditorOps)) = ClearEditorOps
     /\ Rendered(Injection(s)) = ReplaceEscapedNewline(content)

SubmitClicked(l) ==
  \E i \in 1..Len(l) : l[i].op = "click" /\ l[i].arg # <<>> /\ l[i].arg[1] = "submit"

\* C11: the steps of an attempt start in the order navigate, publish page,
\* mode selection, upload, title fill, body fill, topic tagging, submit, each
\* at most once; the submit button is clicked only after the title fill and
\* the body fill have both returned success.
C11_StepsInOrder ==
  entry # "none" =>
    \A starts \in {StepStarts(log)} :
      /\ \A i \in 1..(Len(starts) - 1) : StepRank(starts[i]) < StepRank(starts[i + 1])
      /\ SubmitClicked(log) =>
           /\ TitleFillSucceeded(log)
           /\ BodyFillSucceeded(log, note.content)
           /\ Len(starts) >= 7

\* a note with topics went through all eight steps and the button was clicked
C11_Witness ==
  /\ pc = "returned" /\ result = "success" /\ SubmitClicked(log)
  /\ Len(StepStarts(log)) = 8
  /\ HasOp(log, Op("get_value", <<"a">>))

\* the steps a required-step failure can name when it is raised
NamedSteps ==
  {"page_access", "title_validation", "title_fill", "fill_title_step",
   "content_validation", "content_fill", "fill_content_step", "find_submit_button"}

\* C12: the failure that publish_note propagates carries the step name the
\* failing step gave it: it is never an error that was raised in the place of
\* an error naming another step.
C12_OriginatingStepKept ==
  (entry # "none" /\ pc = "returned" /\ exc # NoExc) =>
    /\ exc.type = "PublishError"
    /\ exc.cause \notin NamedSteps

\* the last operations of the submit step: a click of the button, then the URL
SubmitCompleted(l) ==
  LET s == StepOps(l, "submit")
  IN /\ Len(s) >= 3
     /\ s[Len(s)] = Op("current_url", <<>>)
     /\ s[Len(s) - 1].op = "click" /\ s[Len(s) - 1].arg[1] = "submit"
     /\ \E i \in 1..(Len(s) - 2) :
          s[i] = Op("find", <<"submit", s[Len(s) - 1].arg[2]>>)
     /\ \A i \in 1..(Len(s) - 2) : s[i].op = "find"

\* C13: a successful result exists only when the title fill and the body fill
\* returned success and the submit button was found and clicked with no error
\* raised; an attempt that ends with an error has no successful result, and
\* one that has not finished the submit step has none yet.
C13_SuccessOnlyAfterAllRequired ==
  entry # "none" =>
    /\ result = "success" =>
         /\ exc = NoExc
         /\ pc \in {"pn_finally", "returned", "task_done"}
         /\ TitleFillSucceeded(log)
         /\ BodyFillSucceeded(log, note.content)
         /\ SubmitCompleted(log)
    /\ exc # NoExc => result = "none"
    /\ (pc = "task_done" /\ report = "published") => result = "success"

\* a published note: both fills passed, the second candidate was clicked
C13_Witness ==
  /\ pc = "task_done" /\ report = "published" /\ result = "success"
  /\ TitleFillSucceeded(log) /\ BodyFillSucceeded(log, note.content)
  /\ HasOp(log, Op("click", <<"submit", "c2">>))

\* _publish_note_process has been entered
ProcessStarted(l) == HasOp(l, Op("get", <<"publish_page">>))

\* the exception has left _publish_note_process
LeftProcess == pc \in {"pn_except", "pn_finally", "returned", "task_done"}

RECURSIVE TypedTopics(_)
TypedTopics(topics) ==
  IF topics = <<>> THEN <<>>
  ELSE (IF CleanTopic(topics[1]) = <<>> THEN <<>> ELSE <<CleanTopic(topics[1])>>)
       \o TypedTopics(Tail(topics))

\* the topics whose typing was started
HashCount(ops) == Cardinality({i \in 1..Len(ops) : ops[i] = Op("send_keys", <<"#">>)})

\* C15: when a keystroke of one topic fails, the topics after it are still
\* typed: every later topic has its "#" issued.
C15_LaterTopicsAttempted ==
  (pc = "topics_ret" /\ out.failed /\ FindContentEditor(inp.ed).el # None
     /\ inp.failAt > Len(CursorOps)) =>
    LET f == inp.failAt - Len(CursorOps)
        m == ((f - 1) \div 3) + 1
        before == IF f % 3 = 1 THEN m - 1 ELSE m
    IN HashCount(out.ops) >= before + (Len(TypedTopics(inp.topics)) - m)

\* the upload step queried every candidate and the XPath fallback and found
\* no control
NoUploadControl(l) ==
  /\ HasOp(l, NoUploadElement)
  /\ \A i \in 1..NumUploadSelectors : HasOp(l, Op("find", <<"upload", CandName(i)>>))
  /\ HasOp(l, Op("find", <<"upload", "xpath">>))

\* C16: when neither a candidate query nor the XPath fallback finds an upload
\* control, the upload step sends no file path, raises nothing and hands over
\* to the title fill; no file path is sent later in the attempt either.
C16_NoUploadControlNotFatal ==
  [][/\ (pc = "upload" /\ NoUploadControl(log')) =>
          /\ pc' = "fill_title" /\ exc' = NoExc
          /\ CountOp(log', "send_files") = 0
     /\ (pc # "upload" /\ NoUploadControl(log)) => CountOp(log', "send_files") = 0]_vars

\* no upload control on the page, and the title fill has started
C16_Witness ==
  /\ NoUploadControl(log) /\ HasOp(log, Op("log", <<"fill_title">>))
  /\ CountOp(log, "send_files") = 0 /\ note.images # <<>>

MaxLengthOf(kind) == IF kind = "title" THEN MAX_TITLE_LENGTH ELSE MAX_CONTENT_LENGTH

ValidationError(kind) ==
  IF kind = "title" THEN PublishError("title_validation")
  ELSE PublishError("content_validation")

\* C17 as stated: fill_title and fill_content called with an empty text or
\* with a text of more than the maximum number of characters fail with the
\* validation error and perform no DOM operation.
C17_TooLongRejectedFirst ==
  (pc = "fill_ret" /\ (inp.text = <<>> \/ Len(inp.text) > MaxLengthOf(inp.kind))) =>
    /\ out.exc = ValidationError(inp.kind)
    /\ out.ops = <<>> /\ ~out.ret

\* C17 amended: the length that counts is the one the text has once the
\* white space around it is removed: an empty text, or one still longer
\* than the maximum after trimming, fails with the validation error and no
\* DOM operation is performed.
C17_ValidatedBeforeDom ==
  (pc = "fill_ret"
     /\ (inp.text = <<>> \/ Len(Strip(inp.text)) > MaxLengthOf(inp.kind))) =>
    /\ out.exc = ValidationError(inp.kind)
    /\ out.ops = <<>> /\ ~out.ret

\* a title of three letters against a maximum of two: refused, nothing done
C17_Witness ==
  /\ pc = "fill_ret" /\ inp.kind = "title" /\ inp.text = <<"a", "a", "a">>
  /\ inp.title = <<"ok", "absent", "absent">>
  /\ out.exc = PublishError("title_validation") /\ out.ops = <<>>

\* the value the title field gave when it was read back: none if it was not read
ValuesRead(ops) == SelectSeq(ops, LAMBDA o : o.op = "get_value")

\* C18: fill_title returns True only if the value read back from the title
\* field after the insertion is not empty; when the field is read back
\* empty it returns False.
C18_TitleReadBackNonEmpty ==
  (pc = "fill_ret" /\ inp.kind = "title") =>
    /\ out.ret => (ValuesRead(out.ops) # <<>> /\ ValuesRead(out.ops)[1].arg # <<>>)
    /\ (ValuesRead(out.ops) # <<>> /\ ValuesRead(out.ops)[1].arg = <<>>) => ~out.ret

\* the element kind (tag) of what holds focus
KindInFocus(target, ed) == IF target = "anchor" THEN ed.anchorTag ELSE target

\* C19: the element the TAB fallback adopts is of another kind than the
\* anchor, and it is never the anchor itself (focus that did not move).
C19_AdoptedKindDiffersFromAnchor ==
  (pc = "fill_ret" /\ inp.kind = "editor" /\ out.el.role = "active") =>
    /\ KindInFocus(out.el.state, inp.ed) # inp.ed.anchorTag
    /\ out.el.state # "anchor"

TabCount(ops) == Cardinality({i \in 1..Len(ops) : ops[i] = Op("send_keys", <<"TAB">>)})

\* the fallback runs: no direct query meets a displayed element, an anchor is
\* displayed and takes the focus
FallbackRuns(ed) ==
  /\ \A i \in 1..Len(ed.direct) : ed.direct[i] \notin {"disabled", "ok"}
  /\ \E i \in 1..Len(ed.title) : ed.title[i] \in {"disabled", "ok"}
  /\ ed.focusOk

\* what the code does not accept after a TAB: an input element in focus
NotAccepted(target, ed) == target # "raise" /\ KindInFocus(target, ed) = "input"

\* C20: one resolution presses TAB at most twice; when neither press brings
\* an accepted element into focus no element is returned, and fill_content
\* fails with its not-found error after exactly two presses, without
\* clicking or injecting anywhere.
C20_TwoAdvancesThenGiveUp ==
  (pc = "fill_ret" /\ inp.kind = "content") =>
    /\ TabCount(out.ops) <= 2
    /\ (FallbackRuns(inp.ed) /\ NotAccepted(inp.ed.tab1, inp.ed)
          /\ NotAccepted(inp.ed.tab2, inp.ed)) =>
         /\ TabCount(out.ops) = 2
         /\ out.exc = PublishError("content_fill") /\ ~out.ret
         /\ \A i \in 1..Len(out.ops) : out.ops[i].op \notin {"click", "insertText"}

\* focus went to another input, then back to the title input: given up
C20_Witness ==
  /\ pc = "fill_ret" /\ inp.kind = "content"
  /\ inp.ed.anchorTag = "input" /\ inp.ed.tab1 = "input" /\ inp.ed.tab2 = "anchor"
  /\ FallbackRuns(inp.ed) /\ TabCount(out.ops) = 2
  /\ out.exc = PublishError("content_fill")

\* C21: the check that sees the indicator is followed by no sleep and by no
\* other check: the elapsed time and the number of checks stay as that check
\* left them until the poll returns.
C21_ReturnsAtOnceOnSuccess ==
  [][/\ (~success_found /\ success_found') =>
          (elapsed_time' = elapsed_time /\ checks' = checks + 1)
     /\ (success_found /\ pc = "poll") =>
          (pc' = "poll_done" /\ elapsed_time' = elapsed_time /\ checks' = checks
           /\ success_found')]_vars

\* the indicator showed at the third check: two sleeps, three checks, returned
C21_Witness ==
  /\ pc = "poll_done" /\ success_found
  /\ checks = 3 /\ elapsed_time = 2 * check_interval

\* C22: the upload step goes into the poll exactly when it has sent the files
\* and the note has a video; nothing else leads into the poll, and for a note
\* without video no indicator check is ever made: upload hands over to the
\* title fill.
C22_PollOnlyForSentVideo ==
  [][/\ pc = "upload" =>
          ((pc' = "poll") <=> (CountOp(log', "send_files") = 1 /\ note.videos # <<>>))
     /\ (pc # "upload" /\ pc' = "poll") => pc = "poll"
     /\ note.videos = <<>> =>
          /\ checks' = 0 /\ pc' # "poll"
          /\ pc = "upload" => pc' = "fill_title"]_vars

\* a note with an image and a video: both sent, the poll is at its first check
C22_Witness ==
  /\ pc = "poll" /\ checks = 1
  /\ note.images # <<>> /\ note.videos # <<>>
  /\ CountOp(log, "send_files") = 1

\* an upload control is on the page: a selector meets a displayed element or
\* the XPath query finds an input
UploadControlFound(page) ==
  \/ \E i \in 1..Len(page.upload) : page.upload[i] \in {"disabled", "ok"}
  \/ page.xpathFound

SendOps(ops) == SelectSeq(ops, LAMBDA o : o.op = "send_files")

\* C23: when the note has files and an upload control is found, a send that
\* goes through is the only one; it carries the images in their order
\* followed by the videos in theirs, every path once.  No other case sends.
C23_OneSendAllPaths ==
  pc = "upload_ret" =>
    /\ Len(SendOps(out.ops)) <= 1
    /\ (UploadControlFound(inp.page) /\ inp.page.sendOk
          /\ Len(inp.images) + Len(inp.videos) > 0) =>
         /\ Len(SendOps(out.ops)) = 1
         /\ LET sent == SendOps(out.ops)[1].arg
            IN /\ Len(sent) = Len(inp.images) + Len(inp.videos)
               /\ \A i \in 1..Len(inp.images) : sent[i] = inp.images[i]
               /\ \A i \in 1..Len(inp.videos) : sent[Len(inp.images) + i] = inp.videos[i]
    /\ ~UploadControlFound(inp.page) => SendOps(out.ops) = <<>>

\* two images and two videos through a control found by the XPath query
C23_Witness ==
  /\ pc = "upload_ret"
  /\ inp.images = <<"p2", "p1">> /\ inp.videos = <<"v2", "v1">>
  /\ inp.page.upload = AllAbsent(NumUploadSelectors) /\ inp.page.xpathFound
  /\ SendOps(out.ops) = <<Op("send_files", <<"p2", "p1", "v2", "v1">>)>>

WantedLabel == IF inp.images # <<>> THEN "image" ELSE "video"

\* a tab that is displayed, carries the label and is on the screen
OnScreen(tab, label) ==
  ~tab.stale /\ tab.displayed /\ tab.label = label /\ tab.x > 0 /\ tab.y > 0

TabClicks(ops) == SelectSeq(ops, LAMBDA o : o.op = "click")

\* the tab a click went to
ClickedTab(o) == CHOOSE t \in 1..Len(inp.page.tabs) : o.arg[3] = CandName(t)

\* C24: mode selection clicks at most one tab, and only a tab that is
\* displayed, carries the label of the wanted mode and has x > 0 and y > 0;
\* when the page has no such tab nothing is clicked; the handler returns
\* without an exception in every case.
C24_OnlyOnScreenTabClicked ==
  pc = "mode_ret" =>
    /\ Len(TabClicks(out.ops)) <= 1
    /\ \A i \in 1..Len(out.ops) : out.ops[i].op = "click" =>
         /\ \E t \in 1..Len(inp.page.tabs) : out.ops[i].arg[3] = CandName(t)
         /\ out.ops[i].arg[2] = WantedLabel
         /\ OnScreen(inp.page.tabs[ClickedTab(out.ops[i])], WantedLabel)
    /\ (\A t \in 1..Len(inp.page.tabs) : ~OnScreen(inp.page.tabs[t], WantedLabel)) =>
         TabClicks(out.ops) = <<>>
    /\ out.exc = NoExc

\* an image tab off the screen, then one on it: the second is clicked
C24_Witness ==
  /\ pc = "mode_ret" /\ inp.images # <<>>
  /\ inp.page.tabs = <<Tab("image", TRUE, -1, 1, FALSE, FALSE),
                       Tab("image", TRUE, 1, 1, FALSE, FALSE)>>
  /\ TabClicks(out.ops) = <<Op("click", <<"tab", "image", "c2">>)>>

\* C25: a video tab is clicked only for a note with videos and no images,
\* and only a tab that is on the screen and not the active one; for a note
\* with images the click, if any, goes to an image tab.
C25_VideoTabOnlyWhenNeeded ==
  pc = "mode_ret" =>
    \A i \in 1..Len(out.ops) : out.ops[i].op = "click" =>
      LET tab == inp.page.tabs[ClickedTab(out.ops[i])]
      IN /\ tab.label = "video" =>
              /\ inp.videos # <<>> /\ inp.images = <<>>
              /\ OnScreen(tab, "video") /\ ~tab.active
         /\ inp.images # <<>> => tab.label = "image"

\* videos only, the video tab on the screen and not active: clicked
C25_Witness ==
  /\ pc = "mode_ret" /\ inp.images = <<>> /\ inp.videos # <<>>
  /\ inp.page.tabs = <<Tab("image", TRUE, 1, 1, FALSE, FALSE),
                       Tab("video", TRUE, 1, 1, FALSE, FALSE)>>
  /\ TabClicks(out.ops) = <<Op("click", <<"tab", "video", "c2">>)>>

\* the operations of fill_topics on the editor: those of the lookup left out
OnEditor(ops) ==
  SelectSeq(ops, LAMBDA o : o.op \notin {"find", "focus"}
                            /\ o # Op("send_keys", <<"TAB">>))

\* what a topic tagging that runs to its end does, by position: the cursor to
\* the end, two line breaks, then marker, text, Enter for the k-th topic typed
TaggingAt(typed, i) ==
  IF i = 1 THEN Op("click", <<>>)
  ELSE IF i = 2 THEN Op("move_cursor_to_end", <<>>)
  ELSE IF i \in {3, 4} THEN Enter
  ELSE IF (i - 4) % 3 = 1 THEN Op("send_keys", <<"#">>)
  ELSE IF (i - 4) % 3 = 2 THEN Op("send_keys", typed[((i - 5) \div 3) + 1])
  ELSE Enter

\* C26: topic tagging puts the cursor at the end of the editor, then sends
\* two ENTER, then for each topic that is not empty once cleaned, in input
\* order, the marker, the cleaned text and one ENTER; a topic that is empty
\* once cleaned sends nothing.  A tagging that runs to its end sends 2 + n
\* ENTER for n such topics; one that is cut short has done a prefix of this.
C26_TopicsKeystrokeOrder ==
  (pc = "topics_ret" /\ inp.topics # <<>>) =>
    \A typed \in {TypedTopics(inp.topics)} : \A done \in {OnEditor(out.ops)} :
      /\ Len(done) <= 4 + 3 * Len(typed)
      /\ \A i \in 1..Len(done) : done[i] = TaggingAt(typed, i)
      /\ (out.ret /\ ~out.failed) =>
           /\ Len(done) = 4 + 3 * Len(typed)
           /\ Cardinality({i \in 1..Len(done) : done[i] = Enter}) = 2 + Len(typed)

\* an empty topic before another: two line breaks and one topic typed
C26_Witness ==
  /\ pc = "topics_ret" /\ out.ret /\ ~out.failed
  /\ inp.topics = <<<<"#", "SP">>, <<"#", "a">>>>
  /\ Cardinality({i \in 1..Len(out.ops) : out.ops[i] = Enter}) = 3

Marker == Op("send_keys", <<"#">>)

\* the places of the log where a marker is followed by the text of its topic
MarkerPlaces(ops) == {i \in 1..(Len(ops) - 1) : ops[i] = Marker}

\* the topics with something other than markers and spaces in them
Typable(topics) ==
  {m \in 1..Len(topics) :
     \E k \in 1..Len(topics[m]) : topics[m][k] # "#" /\ ~IsSpace(topics[m][k])}

\* how many members of S are at most i
RankIn(S, i) == Cardinality({j \in S : j <= i})

\* t is what is left of p once every marker is taken out of it and the
\* spaces at both ends are dropped
MarkersAndEndsRemoved(t, p) ==
  \A q \in {SelectSeq(p, LAMBDA c : c # "#")} :
    \E a \in 0..Len(q) : \E b \in a..Len(q) :
      /\ t = SubSeq(q, a + 1, b)
      /\ \A k \in 1..a : IsSpace(q[k])
      /\ \A k \in (b + 1)..Len(q) : IsSpace(q[k])
      /\ t # <<>> => (~IsSpace(t[1]) /\ ~IsSpace(t[Len(t)]))

\* t is p without the spaces at its ends and without one marker in front
LeadingMarkerRemoved(t, p) ==
  \A q \in {Strip(p)} :
    t = Strip(IF q # <<>> /\ q[1] = "#" THEN Tail(q) ELSE q)

\* C27 as stated: for each topic, the text typed after the tag marker is the
\* topic with one leading '#' and the surrounding whitespace removed, every
\* interior character kept.  Fails for the topic "a#": the code types "a".
C27_OneLeadingMarkerRemoved ==
  (pc = "topics_ret" /\ inp.topics # <<>>) =>
    \A places \in {MarkerPlaces(out.ops)} : \A typable \in {Typable(inp.topics)} :
      \A i \in places : \E m \in typable :
        /\ RankIn(typable, m) = RankIn(places, i)
        /\ LeadingMarkerRemoved(out.ops[i + 1].arg, inp.topics[m])

\* C27 (amended): for each topic, the text typed after the tag marker is the
\* topic with every '#' removed and then the whitespace at both ends removed,
\* the other characters kept unchanged and in order; a run that is not cut
\* short types one text for each topic that has such a character.
C27_EveryMarkerRemoved ==
  (pc = "topics_ret" /\ inp.topics # <<>>) =>
    \A places \in {MarkerPlaces(out.ops)} : \A typable \in {Typable(inp.topics)} :
      /\ \A i \in places : \E m \in typable :
           /\ RankIn(typable, m) = RankIn(places, i)
           /\ MarkersAndEndsRemoved(out.ops[i + 1].arg, inp.topics[m])
      /\ (out.ret /\ ~out.failed) => Cardinality(places) = Cardinality(typable)

\* a topic with a marker after its text, typed as its text alone
C27_Witness ==
  /\ pc = "topics_ret" /\ out.ret /\ ~out.failed
  /\ inp.topics = <<<<"SP", "a">>, <<"a", "#">>>>
  /\ \E i \in MarkerPlaces(out.ops) :
       RankIn(MarkerPlaces(out.ops), i) = 2 /\ out.ops[i + 1].arg = <<"a">>

SelectAll == Op("send_keys", <<"CTRL", "a">>)
Delete == Op("send_keys", <<"DELETE">>)

\* the places of the log where text of the new body goes in: an insertion or
\* a line break
InjectionPlaces(ops) ==
  {i \in 1..Len(ops) : ops[i].op = "insertText" \/ ops[i] = Enter}

\* C28: body fill clears the editor, a select-all and then a delete, before
\* the first insertion or line break of the new body, and neither a
\* select-all nor a delete is sent once the injection has started.
C28_ClearedBeforeInjection ==
  pc = "body_ret" =>
    \A places \in {InjectionPlaces(out.ops)} : \A i \in places :
      /\ \E a \in 1..(i - 1) : \E b \in (a + 1)..(i - 1) :
           out.ops[a] = SelectAll /\ out.ops[b] = Delete
      /\ out.ops[i] \notin {SelectAll, Delete}
      /\ \A j \in (i + 1)..Len(out.ops) : out.ops[j] \notin {SelectAll, Delete}

\* a body of two paragraphs filled to its end
C28_Witness ==
  /\ pc = "body_ret" /\ out.ret
  /\ \E i, j \in InjectionPlaces(out.ops) :
       i < j /\ out.ops[i].op = "insertText" /\ out.ops[j] = Enter
  /\ \E a \in 1..Len(out.ops) : out.ops[a] = Delete

\* C29: fill_and_publish_existing called when no browser session is live
\* returns a result whose success is false, checks no field, clicks no
\* publish button and raises nothing.
C29_NoSessionFailsQuietly ==
  (pc = "existing_ret" /\ ~out.live) =>
    /\ ~out.ret
    /\ out.exc = NoExc
    /\ \A i \in 1..Len(out.ops) :
         out.ops[i].op \notin {"check_title", "check_content", "find_publish",
                               "click_publish"}

\* the second phase called after a first phase that returned failure, on a
\* page where every field and the button are there
C29_Witness ==
  /\ pc = "existing_ret" /\ ~out.live /\ ~out.ret
  /\ log = <<CloseOp, CloseOp>>
  /\ inp.page.title[1] = "ok" /\ inp.page.content[1] = "ok"
  /\ inp.page.submit[1] = "ok" /\ inp.page.clickOk

\* a page on which the second phase finds both fields and a publish button
\* that can be clicked
Workable(page) ==
  /\ \E i \in 1..Len(page.title) : page.title[i] = "ok"
  /\ \E i \in 1..Len(page.content) : page.content[i] = "ok"
  /\ \E i \in 1..Len(page.submit) : page.submit[i] = "ok"
  /\ page.clickOk

WrongPage(l) == HasOp(l, Op("current_url", <<"login">>))

\* the operations performed after the URL of the page reached was read
AfterUrl(l) ==
  LET i == CHOOSE k \in 1..Len(l) : l[k].op = "current_url"
  IN SubSeq(l, i + 1, Len(l))

\* C31: when the URL read after the navigation to the publish page does not
\* contain "publish", the attempt fails with the page-access step: the error
\* names that step from the moment it is raised until publish_note has
\* returned, and no mode selection, upload, content fill or submit is
\* performed; what follows is the screenshot and the closing of the session.
C31_WrongPageStopsProcess ==
  (entry # "none" /\ WrongPage(log)) =>
    /\ exc = PublishError("page_access")
    /\ result # "success"
    /\ pc \in {"proc_except", "pn_except", "pn_finally", "returned", "task_done"}
    /\ \A after \in {AfterUrl(log)} : \A i \in 1..Len(after) :
         after[i] \in {Op("take_screenshot", <<>>), Op("close_driver", <<>>)}
    /\ pc = "task_done" => report = "exception"

\* publish_note has returned from an attempt that ended on the login page
C31_Witness ==
  /\ entry = "api" /\ pc = "returned" /\ WrongPage(log)
  /\ exc.step = "page_access"
  /\ log[Len(log)] = Op("close_driver", <<>>)

\* mode selection has been entered
ModeStarted(l) == HasOp(l, Op("log", <<"switch_mode">>))

\* the tab lookup of a note with files raised: the step performed nothing
ModeLookupRaised ==
  /\ ModeStarted(log)
  /\ (note.images # <<>> \/ note.videos # <<>>)
  /\ StepOps(log, "switch_mode") = <<>>

\* C32: whatever is raised during mode selection (by the tab lookup, by
\* reading a tab, by the click) stays inside it: once mode selection has
\* run no error is pending, and the next thing the attempt does is the
\* upload, with nothing but tab lookups and tab clicks in between.
C32_ModeSelectionAbsorbed ==
  (entry # "none" /\ ModeStarted(log)) =>
    /\ pc = "upload" => (exc = NoExc /\ result = "none")
    /\ pc # "upload" =>
         \E i, j \in 1..Len(log) :
           /\ i < j
           /\ log[i] = Op("log", <<"switch_mode">>)
           /\ log[j] = Op("log", <<"upload">>)
           /\ \A k \in (i + 1)..(j - 1) : log[k].op \in {"find", "click"}

\* a note with images whose tab lookup raised, published all the same
C32_Witness ==
  /\ entry = "api" /\ pc = "returned" /\ result = "success"
  /\ ModeLookupRaised
  /\ HasOp(log, Op("log", <<"upload">>))

\* C33 as stated: publish_xhs_note returns its success message if and only
\* if the CLI subprocess completed a publish whose result was successful.
\* Fails both ways: the CLI never prints the marker the tool looks for, and
\* a path or a title that holds the marker makes any run look successful.
C33_SuccessIffPublished ==
  pc = "mcp_ret" => (result = "success" <=> report = "published")

\* C34: the tool-calling loop of run_agent ends when every model and tool
\* invocation returns or raises: each pass either leaves the loop or
\* increases seen_turns, seen_turns never passes max_turns, and a run
\* executes at most max_turns tool invocations.
C34_LoopTerminates ==
  /\ [][pc = "agent_loop" => (pc' # "agent_loop" \/ out'.seen_turns > out.seen_turns)]_vars
  /\ [](out.tool_runs <= out.seen_turns + 1 /\ out.seen_turns <= max_turns
         /\ out.tool_runs <= max_turns)
  /\ <>(pc \in {"agent_done", "agent_raised"})

\* a run that used every turn on a tool invocation
C34_Witness ==
  /\ pc = "agent_done"
  /\ out.tool_runs = max_turns /\ out.seen_turns = max_turns

\* twice the number a requested limit stands for, when it stands for one
Numeric(x) == x.kind \in {"int", "float", "str_int"}
Twice(x) == IF x.kind = "float" THEN x.v ELSE 2 * x.v

\* C35: for a positive user_limit and a dict of tool arguments with the key
\* "limit", the limit after clamp_limit is an integer in 1..user_limit: a
\* requested limit that is no number, or zero, or negative, becomes
\* user_limit, a larger one is capped to user_limit, and the other keys
\* are untouched; arguments without the key are returned unchanged.
C35_LimitWithinUserLimit ==
  (pc = "clamp_ret" /\ inp.args.dict /\ inp.user_limit > 0) =>
    IF "limit" \in DOMAIN inp.args.items
    THEN \A asked \in {inp.args.items["limit"]} : \A got \in {out.items["limit"]} :
           /\ got.kind = "int" /\ got.v \in 1..inp.user_limit
           /\ (~Numeric(asked) \/ Twice(asked) <= 0) => got.v = inp.user_limit
           /\ (Numeric(asked) /\ Twice(asked) > 2 * inp.user_limit) =>
                got.v = inp.user_limit
           /\ out.dict /\ DOMAIN out.items = DOMAIN inp.args.items
           /\ \A k \in DOMAIN out.items \ {"limit"} : out.items[k] = inp.args.items[k]
    ELSE out = inp.args

\* a negative limit asked for next to another argument
C35_Witness ==
  /\ pc = "clamp_ret" /\ inp.args.dict
  /\ DOMAIN inp.args.items = {"limit", "table"}
  /\ inp.args.items["limit"] = [kind |-> "str_int", v |-> -1]
  /\ inp.user_limit = 2
  /\ out.items["limit"] = IntValue(2)

====
